---------------------------- MODULE Spec2Model ----------------------------
(***************************************************************************)
(* Model of the partitioned floor-photo dataset loader                     *)
(* (MLStructFP_benchmarks/ml/model/architectures/_data_floor_photo_xy.py): *)
(* the manifest parser _load_photo_parts, the mapping comparison           *)
(* _is_dict_equal and the class DataFloorPhotoXY (constructor, load_part,  *)
(* save_session, load_session, update_session).                            *)
(*                                                                         *)
(* Python values are modelled as follows.                                  *)
(*   - a list or tuple is a sequence; Python index i is At(s, i);          *)
(*   - a dict is a sequence of [k, v] entries in insertion order;          *)
(*   - a raised exception is a result record with ok = FALSE and the       *)
(*     message of the failing assert in err;                               *)
(*   - the file system is the function disk from the paths that exist to   *)
(*     what is there: a regular file with its content, or a directory.     *)
(***************************************************************************)
EXTENDS Integers, Sequences, FiniteSets, TLC

VARIABLES
    disk,   \* the paths that exist: path -> File(content) or Directory
    obj,    \* the DataFloorPhotoXY instance (its attributes), or NoObj
    last,   \* the last event: [op, args, res]
    prev,   \* result of the preceding load_part call when it had the same
            \* arguments as the last one and no file changed in between
    disk0,  \* the files as they were at the start
    snap,   \* session file -> the shard files as they were when save_session
            \* last wrote it
    model   \* the Pix2PixFloorPhotoModel instance with the position of its
            \* train call, or NoModel

vars == <<disk, obj, last, prev, disk0, snap, model>>

-----------------------------------------------------------------------------
(* Python sequences and dicts *)

At(s, i) == s[i + 1]

Last(s) == s[Len(s)]

Range(s) == {s[i] : i \in 1..Len(s)}

None == [none |-> TRUE]

Min(S) == CHOOSE m \in S : \A v \in S : m <= v

Max(S) == CHOOSE m \in S : \A v \in S : m >= v

Entry(k, v) == [k |-> k, v |-> v]

Keys(d) == [i \in 1..Len(d) |-> d[i].k]

HasKey(d, k) == \E i \in 1..Len(d) : d[i].k = k

Get(d, k) == d[CHOOSE i \in 1..Len(d) : d[i].k = k].v

\* d[k] = v: an existing key keeps its position, a new key goes last
Put(d, k, v) ==
    IF HasKey(d, k)
    THEN [i \in 1..Len(d) |-> IF d[i].k = k THEN Entry(k, v) ELSE d[i]]
    ELSE Append(d, Entry(k, v))

\* del d[k]
Del(d, k) == SelectSeq(d, LAMBDA e : e.k # k)

\* F of the value v, computed once, as a local that is assigned and then read
With(v, F(_)) == CHOOSE r \in {F(b) : b \in {v}} : TRUE

-----------------------------------------------------------------------------
(* Manifest lines: "global_id,[rect_id|[NULL]]-...-partN" *)

NULL == [null |-> TRUE, n |-> 0]

Tok(n) == [null |-> FALSE, n |-> n]

HeaderLine == [kind |-> "header"]

BlankLine == [kind |-> "blank"]

\* a record line: the id before the comma, the '-' separated tokens after it
\* (without the trailing partN token), and the number N of the partN token
Line(id, k, part) == [kind |-> "rec", id |-> id, k |-> k, part |-> part]

\* "rect-project-mutator-partN"
RectLine(id, rect, project, mutator, part) ==
    Line(id, <<Tok(rect), Tok(project), Tok(mutator)>>, part)

\* "[NULL]-x-project-mutator-partN"
NullLine(id, project, mutator, part) ==
    Line(id, <<NULL, Tok(0), Tok(project), Tok(mutator)>>, part)

\* "rect-project-mutator-[NULL]-partN": the marker after the three numbers
TrailingNullLine(id, rect, project, mutator, part) ==
    Line(id, <<Tok(rect), Tok(project), Tok(mutator), NULL>>, part)

Ok(v) == [ok |-> TRUE, v |-> v]

NoPath == [stem |-> "", kind |-> "", xy |-> "", size |-> 0, part |-> 0]

Raise(msg) == [ok |-> FALSE, err |-> msg, path |-> NoPath]

RaisePath(msg, p) == [ok |-> FALSE, err |-> msg, path |-> p]


\* the file names derived by the constructor

RectImagesPath(filename, xy, size) ==
    [stem |-> filename, kind |-> "images", xy |-> xy, size |-> size, part |-> 0]

PhotoFilesPath(filename, xy, size) ==
    [stem |-> filename, kind |-> "files", xy |-> xy, size |-> size, part |-> 0]

PhotoPartPath(filename, xy, size, part) ==
    [stem |-> filename, kind |-> "part", xy |-> xy, size |-> size, part |-> part]

\* what a path of the file system holds
File(data) == [isdir |-> FALSE, data |-> data]

Directory == [isdir |-> TRUE, data |-> <<>>]

\* a file system without any file
NoFiles == [f \in {} |-> Directory]

\* os.path.isfile
isfile(d, p) == p \in DOMAIN d /\ ~d[p].isdir

\* os.path.exists
exists(d, p) == p \in DOMAIN d

\* open(p, 'r') and np.load(p): "" when p can be read, else the OSError
OpenError(d, p) ==
    IF ~exists(d, p) THEN "FileNotFoundError"
    ELSE IF d[p].isdir THEN "IsADirectoryError"
    ELSE ""

NoObj == [constructed |-> FALSE]

NoModel == [made |-> FALSE]

Event(op, args, res) == [op |-> op, args |-> args, res |-> res]

_get_part(line) == line.part

_get_id(line) == line.id

HasNull(line) == \E i \in 1..Len(line.k) : line.k[i].null

\* int(_k[i]) of the line's token list; the partN token follows the list
IntTok(k, i) ==
    IF i >= Len(k) + 1 THEN Raise("IndexError")
    ELSE IF i = Len(k) \/ At(k, i).null THEN Raise("ValueError")
    ELSE Ok(At(k, i).n)

_get_project_id(line) ==
    IF ~HasNull(line) THEN IntTok(line.k, 1) ELSE IntTok(line.k, 2)

\* the body of the loop "for j in photo_files"
PartsStep(st, j) ==
    LET part_j == _get_part(j)
        changed == part_j # st.last_part
        partsid1 == IF changed
                    THEN Put(st.partsid, st.last_part, <<st.last_part_id, st.last_id>>)
                    ELSE st.partsid
        projectid1 == IF changed THEN Put(st.projectid, part_j, <<>>) ELSE st.projectid
        project_id == _get_project_id(j)
        plist == Get(projectid1, part_j)
    IN  IF ~project_id.ok
        THEN [st EXCEPT !.err = project_id.err]
        ELSE [partsid |-> partsid1,
              projectid |-> IF project_id.v \in Range(plist)
                            THEN projectid1
                            ELSE Put(projectid1, part_j, Append(plist, project_id.v)),
              last_part |-> IF changed THEN _get_part(j) ELSE st.last_part,
              last_part_id |-> IF changed THEN _get_id(j) ELSE st.last_part_id,
              last_id |-> _get_id(j),
              err |-> ""]

RECURSIVE PartsLoop(_, _, _)
PartsLoop(st, photo_files, i) ==
    IF i > Len(photo_files) \/ st.err # "" THEN st
    ELSE PartsLoop(PartsStep(st, photo_files[i]), photo_files, i + 1)

\* the asserts of the loop "for k in range(len(parts_key) - 1)"
PartsCheckStep(partsid, parts_key, k) ==
    IF At(parts_key, k + 1) - At(parts_key, k) # 1
    THEN "Parts should diff in 1 unit"
    ELSE IF At(Get(partsid, At(parts_key, k + 1)), 0) # At(Get(partsid, At(parts_key, k)), 1) + 1
    THEN "Invalid part lower continuity"
    ELSE IF ~(At(Get(partsid, At(parts_key, k)), 1) - At(Get(partsid, At(parts_key, k)), 0) >= 1)
    THEN "Invalid part size"
    ELSE ""

RECURSIVE PartsCheck(_, _, _)
PartsCheck(partsid, parts_key, k) ==
    IF k >= Len(parts_key) - 1 THEN ""
    ELSE LET e == PartsCheckStep(partsid, parts_key, k)
         IN  IF e # "" THEN e ELSE PartsCheck(partsid, parts_key, k + 1)

_load_photo_parts(d, filename) ==
    IF ~isfile(d, filename)
    THEN RaisePath("Floor photo file does not exist", filename)
    ELSE
    LET photo_files == SelectSeq(d[filename].data, LAMBDA n : n.kind = "rec")
    IN  IF Len(photo_files) = 0 THEN Raise("IndexError")
        ELSE
        LET total_parts == _get_part(Last(photo_files))
            st0 == [partsid |-> <<>>, projectid |-> <<Entry(0, <<>>)>>,
                    last_part |-> 0, last_part_id |-> 0, last_id |-> 0, err |-> ""]
        IN  IF ~(total_parts > 1)
            THEN Raise("Number of parts cannot be lower or equal than 1")
            ELSE
            With(PartsLoop(st0, photo_files, 1), LAMBDA st :
            IF st.err # "" THEN Raise(st.err)
            ELSE
            With(Put(st.partsid, st.last_part, <<st.last_part_id, st.last_id>>), LAMBDA partsid1 :
            IF ~HasKey(partsid1, 0) THEN Raise("KeyError")
            ELSE
            With(Del(partsid1, 0), LAMBDA partsid :
            With(PartsCheck(partsid, Keys(partsid), 0), LAMBDA chk :
            IF Len(Keys(partsid)) # total_parts THEN Raise("Number of parts does not match")
            ELSE IF chk # "" THEN Raise(chk)
            ELSE [ok |-> TRUE, photo_files |-> photo_files,
                  partsid |-> partsid, projectid |-> Del(st.projectid, 0)]))))

-----------------------------------------------------------------------------
(* Python objects whose type the code inspects: str(), isinstance(), type() *)

PyInt(n) == [t |-> "int", n |-> n]

PyStr(s) == [t |-> "str", s |-> s]

PyList(items) == [t |-> "list", items |-> items]

PyTuple(items) == [t |-> "tuple", items |-> items]

Digits == <<"0", "1", "2", "3", "4", "5", "6", "7", "8", "9">>

\* str(n) of an int
RECURSIVE StrInt(_)
StrInt(n) ==
    IF n < 0 THEN "-" \o StrInt(0 - n)
    ELSE IF n < 10 THEN Digits[n + 1]
    ELSE StrInt(n \div 10) \o Digits[(n % 10) + 1]

\* repr(k) in the place of str(k): a str key comes with its quotes
str_Repr(k) == IF k.t = "int" THEN StrInt(k.n) ELSE "'" \o k.s \o "'"

\* str(k)
str(k) == IF k.t = "int" THEN StrInt(k.n) ELSE k.s

IsListOrTuple(v) == v.t \in {"list", "tuple"}

\* the body of the loop with a list or tuple compared by its first element only
DictEqualStep_FirstOnly(x, y, i) ==
    LET xki == At(x, i).v
        yki == At(y, i).v
    IN  IF str(At(x, i).k) # str(At(y, i).k) THEN "False"
        ELSE IF IsListOrTuple(xki)
        THEN IF ~IsListOrTuple(yki) THEN "AssertionError"
             ELSE IF Len(xki.items) # Len(yki.items) THEN "False"
             ELSE IF Len(xki.items) > 0 /\ At(xki.items, 0) # At(yki.items, 0) THEN "False"
             ELSE ""
        ELSE IF xki.t # yki.t THEN "False"
        ELSE IF xki # yki THEN "False"
        ELSE ""

\* the body of the loop "for i in range(len(kx))": "" to go on, else the outcome
DictEqualStep(x, y, i) ==
    LET xki == At(x, i).v
        yki == At(y, i).v
    IN  IF str(At(x, i).k) # str(At(y, i).k) THEN "False"
        ELSE IF IsListOrTuple(xki)
        THEN IF ~IsListOrTuple(yki) THEN "AssertionError"
             ELSE IF Len(xki.items) # Len(yki.items) THEN "False"
             ELSE IF \E j \in 0..(Len(xki.items) - 1) : At(xki.items, j) # At(yki.items, j)
             THEN "False"
             ELSE ""
        ELSE IF xki.t # yki.t THEN "False"
        ELSE IF xki # yki THEN "False"
        ELSE ""

RECURSIVE DictEqualLoop(_, _, _)
DictEqualLoop(x, y, i) ==
    IF i >= Len(x) THEN "True"
    ELSE LET r == DictEqualStep(x, y, i)
         IN  IF r # "" THEN r ELSE DictEqualLoop(x, y, i + 1)

\* a comparison of the numbers of keys alone
_is_dict_equal_LengthOnly(x, y) == Ok(Len(x) = Len(y))

\* Ok(TRUE), Ok(FALSE), or the AssertionError of line 135
_is_dict_equal(x, y) ==
    IF Len(x) # Len(y) THEN Ok(FALSE)
    ELSE LET r == DictEqualLoop(x, y, 0)
         IN  IF r = "AssertionError" THEN Raise("AssertionError") ELSE Ok(r = "True")

\* the parser's partsid as the Python object Dict[int, Tuple[int, int]]
PyPartsId(partsid) ==
    [i \in 1..Len(partsid) |-> Entry(PyInt(partsid[i].k), PyTuple(partsid[i].v))]

\* the parser's projectid as the Python object Dict[int, List[int]]
PyProjectId(projectid) ==
    [i \in 1..Len(projectid) |-> Entry(PyInt(projectid[i].k), PyList(projectid[i].v))]

-----------------------------------------------------------------------------
(* DataFloorPhotoXY.__init__ *)

\* a file name is the sequence of its '.' separated pieces: "ds.v1" is
\* <<"ds", "v1">>; os.path.splitext(name)[0] drops the last piece of several
SplitExt0(name) == IF Len(name) > 1 THEN SubSeq(name, 1, Len(name) - 1) ELSE name

RECURSIVE IsPowerOf2(_)
\* math.log(n, 2).is_integer() for n > 0
IsPowerOf2(n) == n = 1 \/ (n > 1 /\ n % 2 = 0 /\ IsPowerOf2(n \div 2))

\* the loop "for i in range(self._num_parts)" (lines 236-242): the first
\* part file that does not exist, or None
FirstMissingPart(d, filename, floor_photo_size, num_parts) ==
    LET px(i) == PhotoPartPath(filename, "x", floor_photo_size, i + 1)
        py(i) == PhotoPartPath(filename, "y", floor_photo_size, i + 1)
        bad == {i \in 0..(num_parts - 1) : ~exists(d, px(i)) \/ ~exists(d, py(i))}
    IN  IF bad = {} THEN None
        ELSE IF ~exists(d, px(Min(bad)))
        THEN RaisePath("Floor photo x file does not exist", px(Min(bad)))
        ELSE RaisePath("Floor photo y file does not exist", py(Min(bad)))

\* the constructor: Ok(the instance) or the failure
__init__(d, filename, rect_image_size, floor_photo_size, rect_image_channels, floor_photo_channels) ==
    LET file_rect_images_x == RectImagesPath(filename, "x", rect_image_size)
        file_rect_images_y == RectImagesPath(filename, "y", rect_image_size)
    IN  IF ~(rect_image_size > 0) THEN Raise("Rect image size must be greater than zero")
        ELSE IF ~IsPowerOf2(rect_image_size) THEN Raise("Rect image size must be a power of 2")
        ELSE IF ~(floor_photo_size > 0) THEN Raise("Floor image size must be greater than zero")
        ELSE IF ~IsPowerOf2(floor_photo_size) THEN Raise("Floor image size must be a power of 2")
        ELSE IF ~(rect_image_channels >= 1) THEN Raise("AssertionError")
        ELSE IF ~(floor_photo_channels >= 1) THEN Raise("AssertionError")
        ELSE IF ~isfile(d, file_rect_images_x)
        THEN RaisePath("X rect images file does not exist", file_rect_images_x)
        ELSE IF ~isfile(d, file_rect_images_y)
        THEN RaisePath("Y rect images file does not exist", file_rect_images_y)
        ELSE
        With(_load_photo_parts(d, PhotoFilesPath(filename, "x", floor_photo_size)), LAMBDA rx :
        IF ~rx.ok THEN rx
        ELSE
        With(_load_photo_parts(d, PhotoFilesPath(filename, "y", floor_photo_size)), LAMBDA ry :
        IF ~ry.ok THEN ry
        ELSE
        With(_get_part(Last(rx.photo_files)), LAMBDA parts_x :
        IF parts_x # _get_part(Last(ry.photo_files))
        THEN Raise("Number of parts are different between x and y photo files")
        ELSE
        With(_is_dict_equal(PyPartsId(rx.partsid), PyPartsId(ry.partsid)), LAMBDA eq_id :
        IF ~eq_id.ok THEN eq_id
        ELSE IF ~eq_id.v
        THEN Raise("ID partition of parts are different between x and y photo files")
        ELSE
        With(_is_dict_equal(PyProjectId(rx.projectid), PyProjectId(ry.projectid)), LAMBDA eq_proj :
        IF ~eq_proj.ok THEN eq_proj
        ELSE IF ~eq_proj.v
        THEN Raise("Project partition from parts are different between x and y")
        ELSE
        With(FirstMissingPart(d, filename, floor_photo_size, parts_x), LAMBDA missing :
        IF missing # None THEN missing
        ELSE Ok([constructed |-> TRUE,
                 _filename |-> SplitExt0(filename),
                 _floor_photo_ch |-> floor_photo_channels,
                 _floor_photo_size |-> floor_photo_size,
                 _rect_image_ch |-> rect_image_channels,
                 _rect_image_size |-> rect_image_size,
                 _loaded_session |-> <<>>,
                 _file_rect_images_x |-> file_rect_images_x,
                 _file_rect_images_y |-> file_rect_images_y,
                 _photo_files_x |-> rx.photo_files,
                 _photo_files_y |-> ry.photo_files,
                 _num_parts |-> parts_x,
                 _parts_id |-> rx.partsid,
                 _parts_project_id |-> rx.projectid,
                 _file_floor_photo_images_x |->
                     [i \in 1..parts_x |-> PhotoPartPath(filename, "x", floor_photo_size, i)],
                 _file_floor_photo_images_y |->
                     [i \in 1..parts_x |-> PhotoPartPath(filename, "y", floor_photo_size, i)]])
        ))))))

-----------------------------------------------------------------------------
(* Images: an ndarray is its shape, its dtype and its elements in C order *)

Image(shape, dtype, data) == [shape |-> shape, dtype |-> dtype, data |-> data]

_DATA_DTYPE == "uint8"

\* fri.astype('uint8') of integer elements
AsUint8(img) ==
    [img EXCEPT !.dtype = _DATA_DTYPE, !.data = [i \in 1..Len(img.data) |-> img.data[i] % 256]]

Channels(img) == IF Len(img.shape) = 2 THEN 1 ELSE img.shape[3]

\* element (row, col, ch), all from 0, of an image of 2 or 3 axes
Pixel(img, row, col, ch) ==
    img.data[(row * img.shape[2] + col) * Channels(img) + ch + 1]

\* cv2.resize(src, (size, size), interpolation=INTER_AREA) between the sizes 1
\* and 2: 2 -> 1 is the rounded mean of the four pixels of each channel, 1 -> 2
\* repeats the pixel; an image of one channel comes back with 2 axes
Resize(img, size) ==
    LET c == Channels(img)
        shape == IF c = 1 THEN <<size, size>> ELSE <<size, size, c>>
        mean(ch) == (Pixel(img, 0, 0, ch) + Pixel(img, 0, 1, ch)
                        + Pixel(img, 1, 0, ch) + Pixel(img, 1, 1, ch) + 2) \div 4
    IN  IF img.shape[1] = size
        THEN [img EXCEPT !.shape = shape]
        ELSE IF size < img.shape[1]
        THEN Image(shape, img.dtype, [i \in 1..c |-> mean(i - 1)])
        ELSE Image(shape, img.dtype,
                   [i \in 1..(size * size * c) |-> Pixel(img, 0, 0, (i - 1) % c)])

\* np.stack((fri,) * n, axis=-1)
Stack(img, n) ==
    Image(img.shape \o <<n>>, img.dtype,
          [i \in 1..(Len(img.data) * n) |-> img.data[((i - 1) \div n) + 1]])

\* np.multiply(fri, 255, dtype=fri.dtype) on uint8
Times255(img) == [img EXCEPT !.data = [i \in 1..Len(img.data) |-> (img.data[i] * 255) % 256]]

\* the body of the loop over the rect images of the part (lines 337-364)
RectImage(o, fri0) ==
    IF ~(fri0.shape[1] = fri0.shape[2] /\ fri0.shape[1] = o._rect_image_size)
    THEN Raise("AssertionError")
    ELSE IF Len(fri0.shape) = 2 /\ o._rect_image_ch # 1 THEN Raise("AssertionError")
    ELSE IF Len(fri0.shape) # 2 /\ fri0.shape[3] # o._rect_image_ch THEN Raise("AssertionError")
    ELSE
    With(IF fri0.dtype # _DATA_DTYPE THEN AsUint8(fri0) ELSE fri0, LAMBDA fri1 :
    With(IF o._rect_image_size # o._floor_photo_size
         THEN Resize(fri1, o._floor_photo_size) ELSE fri1, LAMBDA fri2 :
    With(IF o._rect_image_ch # o._floor_photo_ch
         THEN Stack(fri2, o._floor_photo_ch) ELSE fri2, LAMBDA fri3 :
    IF Min(Range(fri3.data)) # 0 THEN Raise("Invalid rect image min value, it must be 0")
    ELSE IF ~(Max(Range(fri3.data)) <= 1)
    THEN Raise("Invalid rect image max value, it must be 1")
    ELSE Ok(Times255(fri3)))))

\* the asserts on one floor photo without those on the channels
FloorPhotoCheck_NoChannels(o, img) ==
    LET si == img.shape
    IN  IF si[1] # si[2] THEN "Floor photo must be square"
        ELSE IF si[1] # o._floor_photo_size
        THEN "Floor photo image size must be equal than constructor"
        ELSE ""

\* the asserts on one floor photo (lines 379-387)
FloorPhotoCheck(o, img) ==
    LET si == img.shape
    IN  IF si[1] # si[2] THEN "Floor photo must be square"
        ELSE IF si[1] # o._floor_photo_size
        THEN "Floor photo image size must be equal than constructor"
        ELSE IF Len(si) = 2 /\ o._floor_photo_ch # 1 THEN "AssertionError"
        ELSE IF Len(si) # 2 /\ si[3] # o._floor_photo_ch
        THEN "Invalid number of channels of floor x photo"
        ELSE ""

\* the first failure of a sequence of results, or "" when all are ok
FirstError(rs) ==
    IF \A i \in 1..Len(rs) : rs[i].ok THEN ""
    ELSE rs[Min({i \in 1..Len(rs) : ~rs[i].ok})].err

\* one row of _load_id (lines 407-416): image, rect, project and mutator id
LoadIdRow(line) ==
    LET k == line.k
        shift == IF At(k, 0).null THEN 1 ELSE 0
        rect == IF shift = 1 THEN Ok(0 - 1) ELSE IntTok(k, 0)
        project == IntTok(k, 1 + shift)
        mutator == IntTok(k, 2 + shift)
    IN  IF ~rect.ok THEN rect
        ELSE IF ~project.ok THEN project
        ELSE IF ~mutator.ok THEN mutator
        ELSE [ok |-> TRUE, image |-> _get_id(line), rect |-> rect.v,
              project |-> project.v, mutator |-> mutator.v]

\* np.delete(a, rem_id, axis=0); rem_id holds positions from 0
Delete(a, rem_id) ==
    LET keep(i) == (i - 1) \notin rem_id
        F[i \in 0..Len(a)] ==
            IF i = 0 THEN <<>> ELSE IF keep(i) THEN Append(F[i - 1], a[i]) ELSE F[i - 1]
    IN  F[Len(a)]

\* a[indices]
Take(a, indices) == [i \in 1..Len(indices) |-> At(a, At(indices, i - 1))]

\* the ids first..last of a part
IdRange(o, part) ==
    LET first == At(Get(o._parts_id, part), 0)
        lastid == At(Get(o._parts_id, part), 1)
    IN  [i \in 1..(lastid + 1 - first) |-> first + i - 1]

\* the arrays of a part before shuffling (lines 321-445), or the failure
LoadArrays(d, o, part, xy, remove_null) ==
    LET file_r == IF xy = "x" THEN o._file_rect_images_x ELSE o._file_rect_images_y
        file_p == IF xy = "x" THEN At(o._file_floor_photo_images_x, part - 1)
                  ELSE At(o._file_floor_photo_images_y, part - 1)
        n == IF xy = "x" THEN o._photo_files_x ELSE o._photo_files_y
        ids == IdRange(o, part)
    IN  IF xy \notin {"x", "y"} THEN Raise("Unexpected value xy")
        ELSE IF OpenError(d, file_r) # "" THEN RaisePath(OpenError(d, file_r), file_r)
        ELSE
        LET fr == d[file_r].data
        IN  With([i \in 1..Len(ids) |->
                     IF ids[i] >= Len(fr) THEN Raise("IndexError")
                     ELSE RectImage(o, At(fr, ids[i]))], LAMBDA r :
            IF FirstError(r) # "" THEN Raise(FirstError(r))
            ELSE IF OpenError(d, file_p) # "" THEN RaisePath(OpenError(d, file_p), file_p)
            ELSE
            LET fp == d[file_p].data
            IN  With([i \in 1..Len(fp) |-> FloorPhotoCheck(o, fp[i])], LAMBDA chk :
                IF Len(fp) # Len(r)
                THEN Raise("Floor photo size is different than rect image size")
                ELSE IF \E i \in 1..Len(chk) : chk[i] # ""
                THEN Raise(chk[Min({i \in 1..Len(chk) : chk[i] # ""})])
                ELSE
                With([i \in 1..Len(ids) |->
                         IF ids[i] >= Len(n) THEN Raise("IndexError")
                         ELSE LoadIdRow(At(n, ids[i]))], LAMBDA rows :
                IF FirstError(rows) # "" THEN Raise(FirstError(rows))
                ELSE
                \* list(np.where(nid['rect'] == -1)[0])
                With(IF remove_null
                     THEN {i \in 0..(Len(rows) - 1) : At(rows, i).rect = 0 - 1}
                     ELSE {}, LAMBDA rem_id :
                [ok |-> TRUE,
                 npr |-> Delete([i \in 1..Len(r) |-> r[i].v], rem_id),
                 fp |-> Delete(fp, rem_id),
                 nid |-> [image |-> Delete([i \in 1..Len(rows) |-> rows[i].image], rem_id),
                          rect |-> Delete([i \in 1..Len(rows) |-> rows[i].rect], rem_id),
                          project |-> Delete([i \in 1..Len(rows) |-> rows[i].project], rem_id),
                          mutator |-> Delete([i \in 1..Len(rows) |-> rows[i].mutator], rem_id)],
                 total_removed |-> Cardinality(rem_id)]))))

\* _load_data_part with the floor photos left out of the reordering
_load_data_part_FpNotShuffled(d, o, part, xy, remove_null, shuffle, indices) ==
    With(LoadArrays(d, o, part, xy, remove_null), LAMBDA a :
    IF ~a.ok \/ ~shuffle THEN a
    ELSE [ok |-> TRUE,
          npr |-> Take(a.npr, indices),
          fp |-> a.fp,
          nid |-> [image |-> Take(a.nid.image, indices),
                   rect |-> Take(a.nid.rect, indices),
                   project |-> Take(a.nid.project, indices),
                   mutator |-> Take(a.nid.mutator, indices)],
          total_removed |-> a.total_removed])

\* _load_data_part; indices is what np.random.shuffle leaves in
\* np.arange(npr.shape[0]) (read only when shuffle is set)
_load_data_part(d, o, part, xy, remove_null, shuffle, indices) ==
    With(LoadArrays(d, o, part, xy, remove_null), LAMBDA a :
    IF ~a.ok \/ ~shuffle THEN a
    ELSE [ok |-> TRUE,
          npr |-> Take(a.npr, indices),
          fp |-> Take(a.fp, indices),
          nid |-> [image |-> Take(a.nid.image, indices),
                   rect |-> Take(a.nid.rect, indices),
                   project |-> Take(a.nid.project, indices),
                   mutator |-> Take(a.nid.mutator, indices)],
          total_removed |-> a.total_removed])

\* get_image_shape
get_image_shape(o) == <<o._floor_photo_size, o._floor_photo_size, o._floor_photo_ch>>

\* get_total_parts
get_total_parts(o) == o._num_parts

\* one stream's entries of the bundle (lines 281-286, 288-293)
StreamOut(r) ==
    [len |-> Len(r.fp), removed |-> r.total_removed, rect |-> r.npr,
     fphoto |-> r.fp, id |-> r.nid]

\* load_part without the assert on the stream selector
load_part_NoSelectorCheck(d, o, part, xy, remove_null, shuffle, indices_x, indices_y) ==
    IF ~(1 <= part /\ part <= o._num_parts) THEN Raise("Number of parts overflow")
    ELSE
    With(IF xy \in {"x", "xy"}
         THEN _load_data_part(d, o, part, "x", remove_null, shuffle, indices_x)
         ELSE None, LAMBDA rx :
    IF xy \in {"x", "xy"} /\ ~rx.ok THEN rx
    ELSE
    With(IF xy \in {"y", "xy"}
         THEN _load_data_part(d, o, part, "y", remove_null, shuffle, indices_y)
         ELSE None, LAMBDA ry :
    IF xy \in {"y", "xy"} /\ ~ry.ok THEN ry
    ELSE [ok |-> TRUE,
          x |-> IF xy \in {"x", "xy"} THEN StreamOut(rx) ELSE None,
          y |-> IF xy \in {"y", "xy"} THEN StreamOut(ry) ELSE None,
          part |-> part, xy |-> xy]))

\* load_part; the bundle's keys s_len, s_removed, s_rect, s_fphoto and s_id are
\* the fields of its entry s; size_mb, an estimate of the memory taken, is left out
load_part(d, o, part, xy, remove_null, shuffle, indices_x, indices_y) ==
    IF ~(1 <= part /\ part <= o._num_parts) THEN Raise("Number of parts overflow")
    ELSE IF xy \notin {"x", "y", "xy"} THEN Raise("Invalid xy, expected x, y or xy")
    ELSE
    With(IF xy \in {"x", "xy"}
         THEN _load_data_part(d, o, part, "x", remove_null, shuffle, indices_x)
         ELSE None, LAMBDA rx :
    IF xy \in {"x", "xy"} /\ ~rx.ok THEN rx
    ELSE
    With(IF xy \in {"y", "xy"}
         THEN _load_data_part(d, o, part, "y", remove_null, shuffle, indices_y)
         ELSE None, LAMBDA ry :
    IF xy \in {"y", "xy"} /\ ~ry.ok THEN ry
    ELSE [ok |-> TRUE,
          x |-> IF xy \in {"x", "xy"} THEN StreamOut(rx) ELSE None,
          y |-> IF xy \in {"y", "xy"} THEN StreamOut(ry) ELSE None,
          part |-> part, xy |-> xy]))

-----------------------------------------------------------------------------
(* Sessions: _get_file_hash, save_session, load_session, update_session *)

_SESSION_EXPORT_VERSION == "1.1"

\* file_md5(p): the digest of the content of the file, taken as free of
\* collisions; a file that cannot be read raises
FileMd5(d, p) ==
    IF OpenError(d, p) # "" THEN RaisePath(OpenError(d, p), p)
    ELSE Ok([md5 |-> d[p].data])

\* hashlib.md5() updated with each digest of the sequence in turn, then
\* hexdigest(): the digest of their concatenation
Md5(digests) == [md5 |-> digests]

\* the files of stream x alone
HashedFiles_XOnly(o, xy) ==
    IF xy = "rect" THEN <<o._file_rect_images_x>>
    ELSE [k \in 1..o._num_parts |-> At(o._file_floor_photo_images_x, k - 1)]

\* the files of a family in the order their digests are chained
HashedFiles(o, xy) ==
    IF xy = "rect" THEN <<o._file_rect_images_x, o._file_rect_images_y>>
    ELSE [k \in 1..(2 * o._num_parts) |->
             IF k % 2 = 1 THEN At(o._file_floor_photo_images_x, (k - 1) \div 2)
             ELSE At(o._file_floor_photo_images_y, (k - 1) \div 2)]

_get_file_hash(d, o, xy) ==
    IF xy \notin {"rect", "fphoto"} THEN Raise("Invalid xy, expected rect or fphoto")
    ELSE With(HashedFiles(o, xy), LAMBDA files :
         With([k \in 1..Len(files) |-> FileMd5(d, files[k])], LAMBDA h :
         IF \E k \in 1..Len(h) : ~h[k].ok THEN h[Min({k \in 1..Len(h) : ~h[k].ok})]
         ELSE Ok(Md5([k \in 1..Len(h) |-> h[k].v]))))

\* a session file, named by the '.' separated pieces of its name
SessionPath(name) == [stem |-> name, kind |-> "session", xy |-> "", size |-> 0, part |-> 0]

\* '.json' in filename, for names whose pieces are not longer words that start
\* with json
HasDotJson(name) == \E i \in 2..Len(name) : name[i] = "json"

\* filename = os.path.splitext(filename)[0]; if '.json' not in filename:
\* filename += '.json' (lines 566-568 and 610-612)
SessionName(filename) ==
    LET f == SplitExt0(filename)
    IN  IF HasDotJson(f) THEN f ELSE Append(f, "json")

\* json.dump then json.load of a dict of int keys and tuple or list values:
\* the keys come back as strings, the values as lists
JsonDict(pd) ==
    [i \in 1..Len(pd) |-> Entry(PyStr(str(pd[i].k)), PyList(pd[i].v.items))]

\* the outcome of a method that may write files and attributes: the failure or
\* None, the files and the instance afterwards
Outcome(res, d, o) == [res |-> res, d |-> d, o |-> o]

\* save_session; today is datetime.today() formatted
save_session(d, o, filename, description, today) ==
    LET name == SessionName(filename)
        file == SessionPath(name)
        \* open(filename, 'w') creates the file or empties it
        opened == (file :> File(<<>>)) @@ d
        data(hash_rect, hash_floor) ==
                [version |-> _SESSION_EXPORT_VERSION,
                 class |-> "DataFloorPhotoXY",
                 date_save |-> today,
                 description |-> description,
                 filename |-> o._filename,
                 floor_photo_ch |-> o._floor_photo_ch,
                 floor_photo_size |-> o._floor_photo_size,
                 num_parts |-> o._num_parts,
                 parts_id |-> JsonDict(PyPartsId(o._parts_id)),
                 parts_project_id |-> JsonDict(PyProjectId(o._parts_project_id)),
                 rect_image_ch |-> o._rect_image_ch,
                 rect_image_size |-> o._rect_image_size,
                 hash_rect_images |-> hash_rect.v,
                 hash_floor_images |-> hash_floor.v]
    IN  IF exists(d, file) /\ d[file].isdir
        THEN Outcome(RaisePath("IsADirectoryError", file), d, o)
        ELSE
        With(_get_file_hash(d, o, "rect"), LAMBDA hash_rect :
        IF ~hash_rect.ok THEN Outcome(hash_rect, opened, o)
        ELSE
        With(_get_file_hash(d, o, "fphoto"), LAMBDA hash_floor :
        IF ~hash_floor.ok THEN Outcome(hash_floor, opened, o)
        ELSE Outcome(Ok(None), (file :> File(<<data(hash_rect, hash_floor)>>)) @@ d,
                     [o EXCEPT !._loaded_session =
                         <<Entry("file", name), Entry("description", description)>>])))

\* the asserts of load_session without the one on the rect image size
SessionCheck_NoRectSize(d, o, data) ==
    IF data.version # _SESSION_EXPORT_VERSION
    THEN Raise("Outdated session export version")
    ELSE IF data.class # "DataFloorPhotoXY" THEN Raise("Data class is not valid")
    ELSE
    With(_get_file_hash(d, o, "rect"), LAMBDA hash_rect :
    IF ~hash_rect.ok THEN hash_rect
    ELSE IF hash_rect.v # data.hash_rect_images
    THEN Raise("Rect image hash is not the same")
    ELSE
    With(_get_file_hash(d, o, "fphoto"), LAMBDA hash_floor :
    IF ~hash_floor.ok THEN hash_floor
    ELSE IF hash_floor.v # data.hash_floor_images
    THEN Raise("Floor image hash is not the same")
    ELSE
    With(_is_dict_equal(PyPartsId(o._parts_id), data.parts_id), LAMBDA eq_id :
    IF ~eq_id.ok THEN eq_id
    ELSE IF ~eq_id.v THEN Raise("ID partition changed")
    ELSE
    With(_is_dict_equal(PyProjectId(o._parts_project_id), data.parts_project_id), LAMBDA eq_proj :
    IF ~eq_proj.ok THEN eq_proj
    ELSE IF ~eq_proj.v THEN Raise("Project ID partition changed")
    ELSE IF data.floor_photo_size # o._floor_photo_size
    THEN Raise("Floor image size changed")
    ELSE Ok(None)))))

\* the asserts of load_session without the one on the floor photo size
SessionCheck_NoFloorSize(d, o, data) ==
    IF data.version # _SESSION_EXPORT_VERSION
    THEN Raise("Outdated session export version")
    ELSE IF data.class # "DataFloorPhotoXY" THEN Raise("Data class is not valid")
    ELSE
    With(_get_file_hash(d, o, "rect"), LAMBDA hash_rect :
    IF ~hash_rect.ok THEN hash_rect
    ELSE IF hash_rect.v # data.hash_rect_images
    THEN Raise("Rect image hash is not the same")
    ELSE
    With(_get_file_hash(d, o, "fphoto"), LAMBDA hash_floor :
    IF ~hash_floor.ok THEN hash_floor
    ELSE IF hash_floor.v # data.hash_floor_images
    THEN Raise("Floor image hash is not the same")
    ELSE
    With(_is_dict_equal(PyPartsId(o._parts_id), data.parts_id), LAMBDA eq_id :
    IF ~eq_id.ok THEN eq_id
    ELSE IF ~eq_id.v THEN Raise("ID partition changed")
    ELSE
    With(_is_dict_equal(PyProjectId(o._parts_project_id), data.parts_project_id), LAMBDA eq_proj :
    IF ~eq_proj.ok THEN eq_proj
    ELSE IF ~eq_proj.v THEN Raise("Project ID partition changed")
    ELSE IF data.rect_image_size # o._rect_image_size THEN Raise("Rect image size changed")
    ELSE Ok(None)))))

\* the asserts of load_session on the record read (lines 617-634), in order
SessionCheck(d, o, data) ==
    IF data.version # _SESSION_EXPORT_VERSION
    THEN Raise("Outdated session export version")
    ELSE IF data.class # "DataFloorPhotoXY" THEN Raise("Data class is not valid")
    ELSE
    With(_get_file_hash(d, o, "rect"), LAMBDA hash_rect :
    IF ~hash_rect.ok THEN hash_rect
    ELSE IF hash_rect.v # data.hash_rect_images
    THEN Raise("Rect image hash is not the same")
    ELSE
    With(_get_file_hash(d, o, "fphoto"), LAMBDA hash_floor :
    IF ~hash_floor.ok THEN hash_floor
    ELSE IF hash_floor.v # data.hash_floor_images
    THEN Raise("Floor image hash is not the same")
    ELSE
    With(_is_dict_equal(PyPartsId(o._parts_id), data.parts_id), LAMBDA eq_id :
    IF ~eq_id.ok THEN eq_id
    ELSE IF ~eq_id.v THEN Raise("ID partition changed")
    ELSE
    With(_is_dict_equal(PyProjectId(o._parts_project_id), data.parts_project_id), LAMBDA eq_proj :
    IF ~eq_proj.ok THEN eq_proj
    ELSE IF ~eq_proj.v THEN Raise("Project ID partition changed")
    ELSE IF data.rect_image_size # o._rect_image_size THEN Raise("Rect image size changed")
    ELSE IF data.floor_photo_size # o._floor_photo_size
    THEN Raise("Floor image size changed")
    ELSE Ok(None)))))

\* load_session that sets the channel count of the floor photos from the
\* record read, and reads it from the field of the rect images
load_session_AdoptsRecord(d, o, filename) ==
    LET name == SessionName(filename)
        file == SessionPath(name)
    IN  IF OpenError(d, file) # "" THEN Outcome(RaisePath(OpenError(d, file), file), d, o)
        ELSE IF Len(d[file].data) = 0 THEN Outcome(Raise("JSONDecodeError"), d, o)
        ELSE LET data == d[file].data[1]
             IN  With(SessionCheck(d, o, data), LAMBDA chk :
                 IF ~chk.ok THEN Outcome(chk, d, o)
                 ELSE Outcome(Ok(None), d,
                              [o EXCEPT !._floor_photo_ch = data.rect_image_ch,
                                        !._loaded_session =
                                  <<Entry("file", name),
                                    Entry("description", data.description)>>]))

\* load_session that attaches the session before the asserts on its record
load_session_AttachesFirst(d, o, filename) ==
    LET name == SessionName(filename)
        file == SessionPath(name)
    IN  IF OpenError(d, file) # "" THEN Outcome(RaisePath(OpenError(d, file), file), d, o)
        ELSE IF Len(d[file].data) = 0 THEN Outcome(Raise("JSONDecodeError"), d, o)
        ELSE LET data == d[file].data[1]
             IN  With(SessionCheck(d, o, data), LAMBDA chk :
                 IF ~chk.ok
                 THEN Outcome(chk, d,
                              [o EXCEPT !._loaded_session =
                                  <<Entry("file", name),
                                    Entry("description", data.description)>>])
                 ELSE Outcome(Ok(None), d,
                              [o EXCEPT !._loaded_session =
                                  <<Entry("file", name),
                                    Entry("description", data.description)>>]))

load_session(d, o, filename) ==
    LET name == SessionName(filename)
        file == SessionPath(name)
    IN  IF OpenError(d, file) # "" THEN Outcome(RaisePath(OpenError(d, file), file), d, o)
        ELSE IF Len(d[file].data) = 0 THEN Outcome(Raise("JSONDecodeError"), d, o)
        ELSE LET data == d[file].data[1]
             IN  With(SessionCheck(d, o, data), LAMBDA chk :
                 IF ~chk.ok THEN Outcome(chk, d, o)
                 ELSE Outcome(Ok(None), d,
                              [o EXCEPT !._loaded_session =
                                  <<Entry("file", name),
                                    Entry("description", data.description)>>]))

\* update_session without the assert on the attached session: it saves to
\* "s.json" when none is attached
update_session_NoAssert(d, o, today) ==
    IF Len(o._loaded_session) # 2 THEN save_session(d, o, <<"s">>, "", today)
    ELSE save_session(d, o, Get(o._loaded_session, "file"),
                      Get(o._loaded_session, "description"), today)

update_session(d, o, today) ==
    IF Len(o._loaded_session) # 2 THEN Outcome(Raise("Session not loaded"), d, o)
    ELSE save_session(d, o, Get(o._loaded_session, "file"),
                      Get(o._loaded_session, "description"), today)

\* load_floor_photo_data_from_session(filename): the loader constructed from
\* the record of the session file, with the session loaded, or the failure
load_floor_photo_data_from_session(d, filename) ==
    LET name == IF HasDotJson(filename) THEN filename ELSE Append(filename, "json")
        file == SessionPath(name)
    IN  IF ~isfile(d, file) THEN RaisePath("Session file does not exist", file)
        ELSE IF Len(d[file].data) = 0 THEN Raise("JSONDecodeError")
        ELSE LET data == d[file].data[1]
             IN  IF data.version # _SESSION_EXPORT_VERSION
                 THEN Raise("Outdated session export version")
                 ELSE
                 With(__init__(d, data.filename, data.rect_image_size, data.floor_photo_size,
                               data.rect_image_ch, data.floor_photo_ch), LAMBDA o :
                 IF ~o.ok THEN o
                 ELSE
                 With(load_session(d, o.v, name), LAMBDA r :
                 IF ~r.res.ok THEN r.res ELSE Ok(r.o)))

-----------------------------------------------------------------------------
(* Datasets: the files of a stem, made from the manifests of both streams *)

Stem == <<"ds">>

\* the number of records of a part
PartLens == {1, 2}

\* the number of records of each part 1..n, n <= parts
PartShapes(parts) == UNION {[1..n -> PartLens] : n \in 1..parts}

\* the first global id of a manifest
IdBases == {0, 1}

Sum(f) ==
    LET F[i \in 0..Len(f)] == IF i = 0 THEN 0 ELSE F[i - 1] + f[i]
    IN  F[Len(f)]

\* the part of the record at position i (from 0)
PartAt(shape, i) ==
    Min({p \in 1..Len(shape) : i < Sum(SubSeq(shape, 1, p))})

\* the records of a manifest: ids base, base + 1, ... in parts of the given
\* sizes; the records at the positions (from 0) in nulls have the [NULL]
\* marker; the record at position i is of project 1 + (i % cycle)
Manifest(base, shape, nulls, cycle) ==
    [j \in 1..Sum(shape) |->
        IF (j - 1) \in nulls
        THEN NullLine(base + j - 1, 1 + ((j - 1) % cycle), 0, PartAt(shape, j - 1))
        ELSE RectLine(base + j - 1, j, 1 + ((j - 1) % cycle), 0, PartAt(shape, j - 1))]

ManifestOf(q) == Manifest(q[1], q[2], q[3], q[4])

\* rect size, floor photo size, rect channels, floor photo channels
DataConfigs ==
    {[rs |-> 2, fs |-> 2, rc |-> 1, fc |-> 1],
     [rs |-> 2, fs |-> 1, rc |-> 1, fc |-> 3]}

\* the rect image at position i: 0/1 pixels, at most one of them 1
RectImageAt(c, i) ==
    Image(<<c.rs, c.rs>>, _DATA_DTYPE,
          [k \in 1..(c.rs * c.rs) |-> IF k = i % 5 THEN 1 ELSE 0])

\* a floor photo of one grey value
FloorPhotoOf(c, v) ==
    Image(IF c.fc = 1 THEN <<c.fs, c.fs>> ELSE <<c.fs, c.fs, c.fc>>, _DATA_DTYPE,
          [k \in 1..(c.fs * c.fs * c.fc) |-> v])

Positions(m, part) == {j \in 1..Len(m) : m[j].part = part}

\* the floor photos of the records labelled part, in manifest order
FloorPhotosOf(c, m, part, v0) ==
    LET js == Positions(m, part)
        F[j \in 0..Len(m)] ==
            IF j = 0 THEN <<>>
            ELSE IF j \in js THEN Append(F[j - 1], FloorPhotoOf(c, v0 + 2 * j))
            ELSE F[j - 1]
    IN  F[Len(m)]

StreamFiles(c, xy, m, shift) ==
    LET parts == {m[j].part : j \in 1..Len(m)}
        files == {RectImagesPath(Stem, xy, c.rs), PhotoFilesPath(Stem, xy, c.fs)}
                    \cup {PhotoPartPath(Stem, xy, c.fs, p) : p \in parts}
    IN  [f \in files |->
            IF f.kind = "images" THEN File([j \in 1..Len(m) |-> RectImageAt(c, j + shift)])
            ELSE IF f.kind = "files" THEN File(<<HeaderLine>> \o m)
            ELSE File(FloorPhotosOf(c, m, f.part, 10 + 100 * shift))]

Dataset(c, mx, my) == StreamFiles(c, "x", mx, 0) @@ StreamFiles(c, "y", my, 1)

\* the arguments the constructor is called with: those of a dataset, or with
\* one of them invalid
CtorArgs ==
    {<<c.rs, c.fs, c.rc, c.fc>> : c \in DataConfigs}
        \cup {<<0, 2, 1, 1>>, <<3, 2, 1, 1>>, <<2, 0, 1, 1>>, <<2, 3, 1, 1>>,
              <<2, 2, 0, 1>>, <<2, 2, 1, 0>>}

-----------------------------------------------------------------------------
(* The loader: construction and load_part on the datasets of two streams that *)
(* agree, with and without [NULL] records                                     *)

MaxParts == 2

\* the positions (from 0) of the records with the [NULL] marker
NullSets == {{}, {1}, {0, 3}}

Init ==
    /\ \E c \in DataConfigs, base \in IdBases, shape \in PartShapes(MaxParts),
          nx \in NullSets :
         \E ny \in {nx, {}} :
            disk = Dataset(c, Manifest(base, shape, nx, 2), Manifest(base, shape, ny, 2))
    /\ disk0 = disk
    /\ obj = NoObj
    /\ last = Event("init", None, None)
    /\ prev = None
    /\ snap = <<>>
    /\ model = NoModel

\* DataFloorPhotoXY(filename, ...)
New(filename, a) ==
    /\ obj = NoObj
    /\ last.op \in {"init", "env"}
    /\ \E r \in {__init__(disk, filename, a[1], a[2], a[3], a[4])} :
           /\ obj' = IF r.ok THEN r.v ELSE NoObj
           /\ last' = Event("__init__",
                            [filename |-> filename, rect_image_size |-> a[1],
                             floor_photo_size |-> a[2], rect_image_channels |-> a[3],
                             floor_photo_channels |-> a[4]],
                            IF r.ok THEN Ok(None) ELSE r)
    /\ prev' = None
    /\ UNCHANGED <<disk, disk0, snap, model>>

\* n indices drawn with repetition
Perms_WithRepetition(n) == [1..n -> 0..(n - 1)]

\* the orders np.random.shuffle can leave n indices in
Perms(n) ==
    {f \in [1..n -> 0..(n - 1)] : \A i, j \in 1..n : f[i] = f[j] => i = j}

\* the images of a part that np.random.shuffle reorders: none when the call
\* does not shuffle or does not reach the shuffle
ShuffleLen(d, o, part, xy, s, remove_null, shuffle) ==
    IF ~shuffle \/ xy \notin {s, "xy"} \/ ~(1 <= part /\ part <= o._num_parts) THEN 0
    ELSE With(LoadArrays(d, o, part, s, remove_null), LAMBDA a :
         IF a.ok THEN Len(a.npr) ELSE 0)

\* load_part that keeps the arrays of the files as they first were
LoadPart_Cached(part, xy, remove_null, shuffle) ==
    /\ obj # NoObj
    /\ \E indices_x \in Perms(ShuffleLen(disk0, obj, part, xy, "x", remove_null, shuffle)),
          indices_y \in Perms(ShuffleLen(disk0, obj, part, xy, "y", remove_null, shuffle)) :
         LET args == [part |-> part, xy |-> xy, remove_null |-> remove_null,
                      shuffle |-> shuffle]
         IN  /\ last' = Event("load_part", args,
                              load_part(disk0, obj, part, xy, remove_null, shuffle,
                                        indices_x, indices_y))
             /\ prev' = IF last.op = "load_part" /\ last.args = args THEN last.res ELSE None
    /\ UNCHANGED <<disk, obj, disk0, snap, model>>

LoadPart(part, xy, remove_null, shuffle) ==
    /\ obj # NoObj
    /\ \E indices_x \in Perms(ShuffleLen(disk, obj, part, xy, "x", remove_null, shuffle)),
          indices_y \in Perms(ShuffleLen(disk, obj, part, xy, "y", remove_null, shuffle)) :
         LET args == [part |-> part, xy |-> xy, remove_null |-> remove_null,
                      shuffle |-> shuffle]
         IN  /\ last' = Event("load_part", args,
                              load_part(disk, obj, part, xy, remove_null, shuffle,
                                        indices_x, indices_y))
             /\ prev' = IF last.op = "load_part" /\ last.args = args THEN last.res ELSE None
    /\ UNCHANGED <<disk, obj, disk0, snap, model>>

\* the calls of load_part: every part and stream selector with every flag, and
\* the parts and the selector just outside the valid ones
LoadArgs ==
    ((1..MaxParts) \X {"x", "y", "xy"} \X BOOLEAN \X BOOLEAN)
        \cup ({0, MaxParts + 1} \X {"x"} \X {TRUE} \X {FALSE})
        \cup ({1} \X {"z"} \X {TRUE} \X {FALSE})

Next ==
    \/ \E a \in CtorArgs : New(Stem, a)
    \/ \E a \in LoadArgs : LoadPart(a[1], a[2], a[3], a[4])

Spec == Init /\ [][Next]_vars

-----------------------------------------------------------------------------
(* The constructor on its own: the manifests of the two streams agree or   *)
(* differ in one respect, and a file may be missing or be a directory      *)

MaxCtorParts == 3

\* first id, part sizes, [NULL] positions and project cycle of the manifest of
\* stream x, and of the manifests stream y can have
CtorParamsX == {0} \X PartShapes(MaxCtorParts) \X {{}} \X {1}

CtorParamsY == IdBases \X PartShapes(MaxCtorParts) \X {{}, {1}} \X {1, 2}

\* the manifests of the other stream: the same, or one of the four choices differs
OtherParams(q) ==
    {r \in CtorParamsY : Cardinality({i \in 1..4 : r[i] # q[i]}) <= 1}

InitCtor ==
    /\ \E c \in DataConfigs, q \in CtorParamsX :
         \E r \in OtherParams(q) :
            /\ c.fs = 2
            /\ disk = Dataset(c, ManifestOf(q), ManifestOf(r))
    /\ disk0 = disk
    /\ obj = NoObj
    /\ last = Event("init", None, None)
    /\ prev = None
    /\ snap = <<>>
    /\ model = NoModel

\* a directory takes the place of a file before the loader is constructed
MakeDirectory(f) ==
    /\ last.op = "init"
    /\ f \in DOMAIN disk
    /\ disk' = [disk EXCEPT ![f] = Directory]
    /\ last' = Event("env", [file |-> f], None)
    /\ prev' = None
    /\ UNCHANGED <<obj, disk0, snap, model>>

\* a file is removed before the loader is constructed
DeleteFile(f) ==
    /\ last.op = "init"
    /\ f \in DOMAIN disk
    /\ disk' = [g \in DOMAIN disk \ {f} |-> disk[g]]
    /\ last' = Event("env", [file |-> f], None)
    /\ prev' = None
    /\ UNCHANGED <<obj, disk0, snap, model>>

NextCtor ==
    \/ \E f \in DOMAIN disk : DeleteFile(f)
    \/ \E f \in DOMAIN disk : MakeDirectory(f)
    \/ \E a \in CtorArgs : New(Stem, a)

SpecCtor == InitCtor /\ [][NextCtor]_vars

-----------------------------------------------------------------------------
(* Sessions of a loader whose shard files may change once *)

SessionNames == {<<"s">>, <<"s", "json">>}

Descriptions == {"", "run"}

Dates == {"2020-01-01 00:00:00"}

InitSession ==
    /\ \E c \in DataConfigs, shape \in PartShapes(MaxParts) :
         disk = Dataset(c, Manifest(0, shape, {}, 2), Manifest(0, shape, {}, 2))
    /\ disk0 = disk
    /\ obj = NoObj
    /\ last = Event("init", None, None)
    /\ prev = None
    /\ snap = <<>>
    /\ model = NoModel

\* the rect image and floor photo files with what they hold
Shards(d) == [f \in {g \in DOMAIN d : g.kind \in {"images", "part"}} |-> d[f]]

\* the files were last written to the session file with the shards as they are now
Snapped(r, file) ==
    IF r.res.ok THEN (file :> Shards(disk)) @@ snap
    ELSE [f \in DOMAIN snap \ {file} |-> snap[f]]

SaveSession(filename, description, today) ==
    /\ obj # NoObj
    /\ \E r \in {save_session(disk, obj, filename, description, today)} :
           /\ disk' = r.d
           /\ obj' = r.o
           /\ last' = Event("save_session",
                            [filename |-> filename, description |-> description], r.res)
           /\ snap' = Snapped(r, SessionPath(SessionName(filename)))
    /\ UNCHANGED <<prev, disk0, model>>

LoadSession(filename) ==
    /\ obj # NoObj
    /\ \E r \in {load_session(disk, obj, filename)} :
           /\ obj' = r.o
           /\ last' = Event("load_session", [filename |-> filename], r.res)
    /\ UNCHANGED <<disk, prev, disk0, snap, model>>

UpdateSession(today) ==
    /\ obj # NoObj
    /\ \E r \in {update_session(disk, obj, today)} :
           /\ disk' = r.d
           /\ obj' = r.o
           /\ last' = Event("update_session", None, r.res)
           /\ snap' = IF Len(obj._loaded_session) # 2 THEN snap
                      ELSE Snapped(r, SessionPath(SessionName(Get(obj._loaded_session, "file"))))
    /\ UNCHANGED <<prev, disk0, model>>

\* one bit of the first image of an array file changes
Altered(content) ==
    [content EXCEPT !.data[1].data[1] = IF @ % 2 = 0 THEN @ + 1 ELSE @ - 1]

\* the content of one shard file changes
ModifyFile(f) ==
    /\ obj # NoObj
    /\ Shards(disk) = Shards(disk0)
    /\ f \in DOMAIN Shards(disk)
    /\ isfile(disk, f)
    /\ Len(disk[f].data) > 0
    /\ disk' = [disk EXCEPT ![f] = Altered(@)]
    /\ last' = Event("env", [file |-> f], None)
    /\ UNCHANGED <<obj, prev, disk0, snap, model>>

\* two shard files with different contents exchange them
SwapFiles(f, g) ==
    /\ obj # NoObj
    /\ Shards(disk) = Shards(disk0)
    /\ f \in DOMAIN Shards(disk) /\ g \in DOMAIN Shards(disk)
    /\ disk[f] # disk[g]
    /\ disk' = [disk EXCEPT ![f] = disk[g], ![g] = disk[f]]
    /\ last' = Event("env", [file |-> f, other |-> g], None)
    /\ UNCHANGED <<obj, prev, disk0, snap, model>>

NextSession ==
    \/ \E a \in CtorArgs : New(Stem, a)
    \/ \E n \in SessionNames, description \in Descriptions, today \in Dates :
         SaveSession(n, description, today)
    \/ \E n \in SessionNames : LoadSession(n)
    \/ \E today \in Dates : UpdateSession(today)
    \/ \E f \in DOMAIN disk : ModifyFile(f)
    \/ \E f, g \in DOMAIN disk : SwapFiles(f, g)

SpecSession == InitSession /\ [][NextSession]_vars

-----------------------------------------------------------------------------
(* Shard files that change between the calls of load_part *)

InitReload ==
    /\ \E c \in DataConfigs, shape \in PartShapes(MaxParts), nx \in {{}, {1}} :
         disk = Dataset(c, Manifest(0, shape, nx, 2), Manifest(0, shape, nx, 2))
    /\ disk0 = disk
    /\ obj = NoObj
    /\ last = Event("init", None, None)
    /\ prev = None
    /\ snap = <<>>
    /\ model = NoModel

\* the calls of load_part on one stream
ReloadArgs == {a \in LoadArgs : a[2] # "xy"}

NextReload ==
    \/ \E a \in CtorArgs : New(Stem, a)
    \/ \E a \in ReloadArgs : LoadPart(a[1], a[2], a[3], a[4])
    \/ \E f \in DOMAIN disk : ModifyFile(f)

SpecReload == InitReload /\ [][NextReload]_vars

-----------------------------------------------------------------------------
(* Shard files with one image of a shape the loader does not take, or with a *)
(* floor photo too many or too few                                           *)

\* the shapes that an image of the given size and channel count must not have:
\* not square, of another size, of another channel count, and without channel
\* axis when the channel count is not 1
BadShapes(size, ch) ==
    {<<size, 2 * size>>, <<2 * size, 2 * size>>, <<size, size, ch + 1>>}
        \cup (IF ch # 1 THEN {<<size, size>>} ELSE {})

\* an image of zeros
Blank(shape) ==
    Image(shape, _DATA_DTYPE,
          [k \in 1..(shape[1] * shape[2] * (IF Len(shape) = 2 THEN 1 ELSE shape[3])) |-> 0])

\* the files d with the image at position i of the file f replaced by one of a
\* bad shape, or with the last floor photo of f left out or repeated
Defects(c, d, f) ==
    LET imgs == d[f].data
        size == IF f.kind = "images" THEN c.rs ELSE c.fs
        ch == IF f.kind = "images" THEN c.rc ELSE c.fc
    IN  {[d EXCEPT ![f] = File([imgs EXCEPT ![i] = Blank(shape)])] :
             i \in {1, Len(imgs)}, shape \in BadShapes(size, ch)}
        \cup (IF f.kind = "part"
              THEN {[d EXCEPT ![f] = File(SubSeq(imgs, 1, Len(imgs) - 1))],
                    [d EXCEPT ![f] = File(Append(imgs, Last(imgs)))]}
              ELSE {})

\* datasets of parts of two records, the second record of the manifest with
\* the [NULL] marker
DefectShapes == UNION {[1..n -> {2}] : n \in 1..MaxParts}

InitDefect ==
    /\ \E c \in DataConfigs, shape \in DefectShapes :
         \E d \in {Dataset(c, Manifest(0, shape, {1}, 2), Manifest(0, shape, {1}, 2))} :
            \E f \in {g \in DOMAIN d : g.kind \in {"images", "part"}} :
               disk \in Defects(c, d, f) \cup {d}
    /\ disk0 = disk
    /\ obj = NoObj
    /\ last = Event("init", None, None)
    /\ prev = None
    /\ snap = <<>>
    /\ model = NoModel

\* the calls of load_part with every part and selector, with and without
\* remove_null and shuffle
DefectLoadArgs == {a \in LoadArgs : a[3] = a[4]}

NextDefect ==
    \/ \E c \in DataConfigs : New(Stem, <<c.rs, c.fs, c.rc, c.fc>>)
    \/ \E a \in DefectLoadArgs : LoadPart(a[1], a[2], a[3], a[4])

SpecDefect == InitDefect /\ [][NextDefect]_vars

-----------------------------------------------------------------------------
(* Rect images with any pixel values, stored as uint8 or as a wider integer *)

\* the pixel values of a stored rect image
PixelValues(dtype) == IF dtype = _DATA_DTYPE THEN {0, 1, 2} ELSE {0, 1, 2, 256}

InitPixels ==
    /\ \E c \in DataConfigs, dtype \in {_DATA_DTYPE, "int64"} :
         \E d \in {Dataset(c, Manifest(0, <<2, 2>>, {}, 2), Manifest(0, <<2, 2>>, {}, 2))},
            data \in [1..(c.rs * c.rs) -> PixelValues(dtype)] :
               disk = [d EXCEPT ![RectImagesPath(Stem, "x", c.rs)] =
                          File([@.data EXCEPT ![1] = Image(<<c.rs, c.rs>>, dtype, data)])]
    /\ disk0 = disk
    /\ obj = NoObj
    /\ last = Event("init", None, None)
    /\ prev = None
    /\ snap = <<>>
    /\ model = NoModel

\* the calls of load_part on part 1
PixelLoadArgs == {a \in LoadArgs : a[1] = 1 /\ a[3] = a[4]}

NextPixels ==
    \/ \E c \in DataConfigs : New(Stem, <<c.rs, c.fs, c.rc, c.fc>>)
    \/ \E a \in PixelLoadArgs : LoadPart(a[1], a[2], a[3], a[4])

SpecPixels == InitPixels /\ [][NextPixels]_vars

-----------------------------------------------------------------------------
(* Manifests whose records have the [NULL] marker first, nowhere, or after *)
(* the numbers                                                            *)

\* the record at position j (from 1) of a manifest, of the given kind
RecordOfKind(kind, j, part) ==
    IF kind = "null" THEN NullLine(j - 1, 1 + ((j - 1) % 2), 3, part)
    ELSE IF kind = "trailing" THEN TrailingNullLine(j - 1, j, 1 + ((j - 1) % 2), 3, part)
    ELSE RectLine(j - 1, j, 1 + ((j - 1) % 2), 3, part)

MarkedManifest(shape, kinds) ==
    [j \in 1..Sum(shape) |-> RecordOfKind(kinds[j], j, PartAt(shape, j - 1))]

InitShift ==
    /\ \E c \in DataConfigs, shape \in PartShapes(MaxParts) :
         \E kinds \in [1..Sum(shape) -> {"rect", "null", "trailing"}] :
            \E m \in {MarkedManifest(shape, kinds)} : disk = Dataset(c, m, m)
    /\ disk0 = disk
    /\ obj = NoObj
    /\ last = Event("init", None, None)
    /\ prev = None
    /\ snap = <<>>
    /\ model = NoModel

\* the calls of load_part on one stream without shuffle
ShiftLoadArgs == {a \in LoadArgs : a[2] # "xy" /\ ~a[4]}

NextShift ==
    \/ \E c \in DataConfigs : New(Stem, <<c.rs, c.fs, c.rc, c.fc>>)
    \/ \E a \in ShiftLoadArgs : LoadPart(a[1], a[2], a[3], a[4])

SpecShift == InitShift /\ [][NextShift]_vars

-----------------------------------------------------------------------------
(* Every method of a loader in any order *)

GetImageShape ==
    /\ obj # NoObj
    /\ last' = Event("get_image_shape", None, Ok(get_image_shape(obj)))
    /\ UNCHANGED <<disk, obj, prev, disk0, snap, model>>

GetTotalParts ==
    /\ obj # NoObj
    /\ last' = Event("get_total_parts", None, Ok(get_total_parts(obj)))
    /\ UNCHANGED <<disk, obj, prev, disk0, snap, model>>

\* the calls of load_part on both streams, and the calls that fail
FrameLoadArgs == {a \in LoadArgs : a[2] \in {"xy", "z"} \/ a[1] \notin 1..MaxParts}

NextFrame ==
    \/ \E a \in CtorArgs : New(Stem, a)
    \/ \E a \in FrameLoadArgs : LoadPart(a[1], a[2], a[3], a[4])
    \/ \E description \in Descriptions, today \in Dates : SaveSession(<<"s">>, description, today)
    \/ \E n \in {<<"s">>, <<"t">>} : LoadSession(n)
    \/ \E today \in Dates : UpdateSession(today)
    \/ GetImageShape
    \/ GetTotalParts

SpecFrame == InitSession /\ [][NextFrame]_vars

-----------------------------------------------------------------------------
(* Loaders made again from a session file: datasets whose stem has or has not *)
(* a '.' in it                                                                *)

Stems == {<<"ds">>, <<"ds", "v1">>}

\* the files d of the stem Stem under another stem
Renamed(d, stem) ==
    [f \in {[g EXCEPT !.stem = stem] : g \in DOMAIN d} |-> d[[f EXCEPT !.stem = Stem]]]

\* a dataset of the same manifests with other images
OtherDataset(c, m) == StreamFiles(c, "x", m, 2) @@ StreamFiles(c, "y", m, 3)

\* what else is on the disk under the stem "ds" when the dataset is "ds.v1":
\* nothing, a copy of the dataset, or another dataset
Neighbours(c, m) == {NoFiles, Dataset(c, m, m), OtherDataset(c, m)}

InitRestore ==
    /\ \E c \in DataConfigs, shape \in PartShapes(MaxParts), stem \in Stems :
         \E m \in {Manifest(0, shape, {}, 2)} :
            \E n \in (IF stem = Stem THEN {NoFiles} ELSE Neighbours(c, m)) :
               disk = Renamed(Dataset(c, m, m), stem) @@ n
    /\ disk0 = disk
    /\ obj = NoObj
    /\ last = Event("init", None, None)
    /\ prev = None
    /\ snap = <<>>
    /\ model = NoModel

\* load_floor_photo_data_from_session(filename); the loader it returns is the
\* result of the call
Restore(filename) ==
    /\ obj # NoObj
    /\ \E r \in {load_floor_photo_data_from_session(disk, filename)} :
           last' = Event("load_floor_photo_data_from_session", [filename |-> filename], r)
    /\ UNCHANGED <<disk, obj, prev, disk0, snap, model>>

NextRestore ==
    \/ \E stem \in Stems, a \in CtorArgs : New(stem, a)
    \/ \E description \in Descriptions, today \in Dates : SaveSession(<<"s">>, description, today)
    \/ \E n \in SessionNames : Restore(n)
    \/ \E f \in DOMAIN disk : ModifyFile(f)

SpecRestore == InitRestore /\ [][NextRestore]_vars

-----------------------------------------------------------------------------
(* Session files of earlier runs: the record of the dataset, or one that *)
(* differs from it in one field                                          *)

\* the records that differ from the record r in one of the fields load_session
\* compares
Tampered(r) ==
    {[r EXCEPT !.version = "1.0"],
     [r EXCEPT !.version = "1.1.0"],
     [r EXCEPT !.class = "ModelDataXY"],
     [r EXCEPT !.hash_rect_images = Md5(<<>>)],
     [r EXCEPT !.hash_floor_images = Md5(<<>>)],
     [r EXCEPT !.parts_id[Len(r.parts_id)].v.items[2] = @ + 1],
     [r EXCEPT !.parts_project_id[1].v.items = Append(@, 9)],
     [r EXCEPT !.rect_image_size = 2 * @],
     [r EXCEPT !.floor_photo_size = 2 * @]}

\* the record save_session writes for the loader o of the files d
RecordOf(d, o) ==
    save_session(d, o, <<"t">>, "earlier", "2019-12-31 00:00:00").d[SessionPath(<<"t", "json">>)].data[1]

\* a dataset a loader can be constructed from, with the session file "t.json"
InitRecord ==
    /\ \E c \in DataConfigs, shape \in PartShapes(MaxParts) :
         \E d \in {Dataset(c, Manifest(0, shape, {}, 2), Manifest(0, shape, {}, 2))} :
            \E o \in {__init__(d, Stem, c.rs, c.fs, c.rc, c.fc)} :
               /\ o.ok
               /\ \E r \in {RecordOf(d, o.v)} :
                     \E t \in Tampered(r) \cup {r} :
                        disk = (SessionPath(<<"t", "json">>) :> File(<<t>>)) @@ d
    /\ disk0 = disk
    /\ obj = NoObj
    /\ last = Event("init", None, None)
    /\ prev = None
    /\ snap = <<>>
    /\ model = NoModel

NextRecord ==
    \/ \E a \in CtorArgs : New(Stem, a)
    \/ \E description \in Descriptions, today \in Dates : SaveSession(<<"s">>, description, today)
    \/ \E n \in {<<"s">>, <<"t">>} : LoadSession(n)
    \/ \E today \in Dates : UpdateSession(today)
    \/ \E f \in DOMAIN disk : ModifyFile(f)

SpecRecord == InitRecord /\ [][NextRecord]_vars

-----------------------------------------------------------------------------
(* The parser on its own: every manifest of at most MaxLines records *)

MaxLines == 4

ParseIds == {0, 1, 2, 3}

ParseParts == {0, 1, 2, 3}

ParseProjects == {1}

ParseFile == PhotoFilesPath("ds", "x", 2)

ParseLines ==
    {RectLine(id, 5, p, 0, part) : id \in ParseIds, p \in ParseProjects, part \in ParseParts}

InitParse ==
    /\ disk = (ParseFile :> File(<<HeaderLine>>))
    /\ obj = NoObj
    /\ last = Event("init", None, None)
    /\ prev = None
    /\ disk0 = disk
    /\ snap = <<>>
    /\ model = NoModel

\* the manifest file gets one more record
WriteLine(line) ==
    /\ last.op = "init"
    /\ Len(disk[ParseFile].data) < MaxLines + 1
    /\ disk' = [disk EXCEPT ![ParseFile].data = Append(@, line)]
    /\ UNCHANGED <<obj, last, prev, disk0, snap, model>>

ParseManifest ==
    /\ last.op = "init"
    /\ last' = Event("_load_photo_parts", [filename |-> ParseFile],
                     _load_photo_parts(disk, ParseFile))
    /\ UNCHANGED <<disk, obj, prev, disk0, snap, model>>

NextParse ==
    \/ \E line \in ParseLines : WriteLine(line)
    \/ ParseManifest

SpecParse == InitParse /\ [][NextParse]_vars

-----------------------------------------------------------------------------
(* Claims about the parser *)

Accepted == last.op = "_load_photo_parts" /\ last.res.ok

\* N: the part number of the last record
TotalParts(photo_files) == _get_part(Last(photo_files))

First(partsid, p) == At(Get(partsid, p), 0)

LastId(partsid, p) == At(Get(partsid, p), 1)

KeysAre1toN(partsid, n) == Keys(partsid) = [p \in 1..n |-> p]

RangesAscending(partsid) ==
    \A i \in 1..Len(partsid) : partsid[i].v[1] <= partsid[i].v[2]

\* consecutive returned parts: the next range starts one past the end of this one
RangesContiguous(partsid) ==
    \A i \in 1..(Len(partsid) - 1) : partsid[i + 1].v[1] = partsid[i].v[2] + 1

NoPartZero(res) == ~HasKey(res.partsid, 0) /\ ~HasKey(res.projectid, 0)

\* C1: for every accepted manifest the returned PartRange has exactly
\* the keys 1..N in ascending order, every range is ascending, every range
\* starts one past the end of the previous one, and part 0 is in neither
\* returned mapping.
C1_Original ==
    Accepted =>
        /\ KeysAre1toN(last.res.partsid, TotalParts(last.res.photo_files))
        /\ RangesAscending(last.res.partsid)
        /\ RangesContiguous(last.res.partsid)
        /\ NoPartZero(last.res)

\* C2: in every accepted manifest every part, the last one
\* included, has at least 2 ids: last(p) - first(p) >= 1.
C2_EveryPartHasTwoIds ==
    Accepted =>
        \A i \in 1..Len(last.res.partsid) :
            last.res.partsid[i].v[2] - last.res.partsid[i].v[1] >= 1

-----------------------------------------------------------------------------
(* Claims about the constructor *)

Constructed == obj # NoObj

AfterInit == last.op = "__init__"

\* the constructor call got past the asserts on its arguments
ArgsAccepted ==
    /\ AfterInit
    /\ last.args.rect_image_size \in {1, 2} /\ last.args.floor_photo_size \in {1, 2}
    /\ last.args.rect_image_channels >= 1 /\ last.args.floor_photo_channels >= 1

\* the file name and the floor photo size the loader was (or is being) built with
CtorFilename == IF Constructed THEN obj._file_rect_images_x.stem ELSE last.args.filename

CtorPhotoSize == IF Constructed THEN obj._floor_photo_size ELSE last.args.floor_photo_size

CtorRectSize == IF Constructed THEN obj._rect_image_size ELSE last.args.rect_image_size

\* what the parser makes of the manifest of stream xy
Parsed(xy) == _load_photo_parts(disk, PhotoFilesPath(CtorFilename, xy, CtorPhotoSize))

\* ProjectMembership: part -> set of project ids
MembershipOf(projectid) == {<<projectid[i].k, Range(projectid[i].v)>> : i \in 1..Len(projectid)}

SameCount == TotalParts(Parsed("x").photo_files) = TotalParts(Parsed("y").photo_files)

SamePartRange == Parsed("x").partsid = Parsed("y").partsid

SameMembership == MembershipOf(Parsed("x").projectid) = MembershipOf(Parsed("y").projectid)

\* both manifests are parsed and compared: the arguments are valid, both rect
\* image files are there and the parser accepts both manifests
ManifestsCompared ==
    /\ ArgsAccepted
    /\ isfile(disk, RectImagesPath(CtorFilename, "x", CtorRectSize))
    /\ isfile(disk, RectImagesPath(CtorFilename, "y", CtorRectSize))
    /\ Parsed("x").ok /\ Parsed("y").ok

ConstructedOnlyIfAgree ==
    Constructed =>
        /\ Parsed("x").ok /\ Parsed("y").ok
        /\ SameCount /\ TotalParts(Parsed("x").photo_files) > 1
        /\ SamePartRange /\ SameMembership

NumberError == "Number of parts are different between x and y photo files"

IdPartitionError == "ID partition of parts are different between x and y photo files"

ProjectPartitionError == "Project partition from parts are different between x and y"

\* C4 as stated: a loader is constructed only if both manifests give the same
\* part count (> 1) and equal PartRange and ProjectMembership; when two parsed
\* manifests disagree in any of these, construction fails with the
\* ID-partition or the project-partition error and there is no loader.
C4_Original ==
    /\ ConstructedOnlyIfAgree
    /\ ManifestsCompared /\ ~(SameCount /\ SamePartRange /\ SameMembership)
         => /\ ~last.res.ok /\ ~Constructed
            /\ last.res.err \in {IdPartitionError, ProjectPartitionError}

\* C4: a loader is constructed only if both manifests give the same part
\* count (> 1) and equal PartRange and ProjectMembership; when two parsed
\* manifests disagree, construction fails and there is no loader: with the
\* number-of-parts error when the counts differ, else with the ID-partition
\* error when the PartRanges differ, else with the project-partition error.
C4_Construction ==
    /\ ConstructedOnlyIfAgree
    /\ ManifestsCompared /\ ~(SameCount /\ SamePartRange /\ SameMembership)
         => /\ ~last.res.ok /\ ~Constructed
            /\ last.res.err = IF ~SameCount THEN NumberError
                              ELSE IF ~SamePartRange THEN IdPartitionError
                              ELSE ProjectPartitionError

\* two parsed manifests with different part counts: the constructor has failed
\* with the number-of-parts error
C4_Witness ==
    /\ ManifestsCompared /\ ~SameCount
    /\ ~last.res.ok /\ last.res.err = NumberError /\ ~Constructed

\* the files the constructor expects for num_parts parts
ExpectedFiles(filename, rect_image_size, floor_photo_size, num_parts) ==
    {RectImagesPath(filename, xy, rect_image_size) : xy \in {"x", "y"}}
        \cup {PhotoFilesPath(filename, xy, floor_photo_size) : xy \in {"x", "y"}}
        \cup {PhotoPartPath(filename, xy, floor_photo_size, p) :
                 xy \in {"x", "y"}, p \in 1..num_parts}

\* the constructor call of the last event, on the files d
InitOn(d) ==
    __init__(d, last.args.filename, last.args.rect_image_size, last.args.floor_photo_size,
             last.args.rect_image_channels, last.args.floor_photo_channels)

\* C5: a loader is constructed only if every expected file is there as a
\* file: both rect image files, both manifests and the floor photo file of
\* every part 1..N of both streams; and when exactly one of the files of a
\* dataset that can be constructed from is missing, construction fails with
\* an error that names the path of that file.
C5_ExpectedFiles ==
    /\ Constructed =>
           \A f \in ExpectedFiles(CtorFilename, CtorRectSize, CtorPhotoSize, obj._num_parts) :
               isfile(disk, f)
    /\ AfterInit /\ InitOn(disk0).ok =>
           \A f \in ExpectedFiles(last.args.filename, last.args.rect_image_size,
                                  last.args.floor_photo_size, InitOn(disk0).v._num_parts) :
               disk = [g \in DOMAIN disk0 \ {f} |-> disk0[g]]
                   => ~last.res.ok /\ last.res.path = f /\ ~Constructed

-----------------------------------------------------------------------------
(* Claims about load_part *)

Loaded == last.op = "load_part" /\ last.res.ok

Requested(s) == last.args.xy \in {s, "xy"}

Stream(res, s) == IF s = "x" THEN res.x ELSE res.y

ManifestOfStream(s) == IF s = "x" THEN obj._photo_files_x ELSE obj._photo_files_y

\* last_id(part) - first_id(part) + 1
OriginalLength(part) == LastId(obj._parts_id, part) - First(obj._parts_id, part) + 1

\* the records of the part whose rect id is the null marker
NullRecords(photo_files, part) ==
    {j \in 1..Len(photo_files) : _get_part(photo_files[j]) = part /\ photo_files[j].k[1].null}

\* C6: with remove_null a returned stream has no rect id -1, its removed
\* count is the number of records of the part whose rect id is the null marker,
\* and removed = original length - len; without remove_null removed = 0 and
\* len is the original length last_id(part) - first_id(part) + 1.
C6_RemoveNull ==
    Loaded =>
        \A s \in {"x", "y"} : Requested(s) =>
            LET b == Stream(last.res, s)
                part == last.args.part
            IN  IF last.args.remove_null
                THEN /\ (0 - 1) \notin Range(b.id.rect)
                     /\ b.removed = Cardinality(NullRecords(ManifestOfStream(s), part))
                     /\ b.removed = OriginalLength(part) - b.len
                ELSE /\ b.removed = 0
                     /\ b.len = OriginalLength(part)

\* the per-position tuples of a returned stream
Tuples(b) ==
    [i \in 1..b.len |-> <<b.rect[i], b.fphoto[i], b.id.image[i], b.id.rect[i],
                          b.id.project[i], b.id.mutator[i]>>]

\* the sequence t is the sequence u in some order: every value occurs as
\* often in t as in u
IsPermutationOf(t, u) ==
    /\ Len(t) = Len(u)
    /\ \A v \in Range(t) \cup Range(u) :
           Cardinality({i \in 1..Len(t) : t[i] = v}) = Cardinality({i \in 1..Len(u) : u[i] = v})

\* the call of the last event with shuffle off
Unshuffled ==
    load_part(disk, obj, last.args.part, last.args.xy, last.args.remove_null, FALSE,
              <<>>, <<>>)

\* C7: the tuples (rect image, floor photo, image id, rect id, project id,
\* mutator id) of each stream returned with shuffle are a permutation of the
\* tuples returned without shuffle for the same other arguments, and the
\* removed counts are the same.
C7_ShufflePermutes ==
    Loaded /\ last.args.shuffle =>
        /\ Unshuffled.ok
        /\ \A s \in {"x", "y"} : Requested(s) =>
               /\ IsPermutationOf(Tuples(Stream(last.res, s)), Tuples(Stream(Unshuffled, s)))
               /\ Stream(last.res, s).removed = Stream(Unshuffled, s).removed

\* a shuffled call that returned two images of a stream in the other order
C7_Witness ==
    /\ Loaded /\ last.args.shuffle /\ Requested("x")
    /\ last.res.x.len = 2
    /\ Tuples(last.res.x) # Tuples(Unshuffled.x)
    /\ last.res.x.rect[1] # last.res.x.rect[2]
    /\ last.res.x.fphoto[1] # last.res.x.fphoto[2]

\* the last two calls of load_part had the same arguments
Repeated == last.op = "load_part" /\ prev # None

PartOutOfRange == last.args.part < 1 \/ last.args.part > obj._num_parts

SelectorInvalid == last.args.xy \notin {"x", "y", "xy"}

\* the call of the last event on the files d, without shuffle
LoadPartOn(d) ==
    load_part(d, obj, last.args.part, last.args.xy, last.args.remove_null, FALSE,
              <<>>, <<>>)

\* C11: load_part with a part below 1 or above the number of parts, or with
\* a stream selector other than x, y and xy, fails and returns no bundle, and
\* the failure does not depend on any file: it is the same without files.
C11_UsageErrors ==
    last.op = "load_part" /\ (PartOutOfRange \/ SelectorInvalid) =>
        /\ ~last.res.ok
        /\ last.res.err = IF PartOutOfRange THEN "Number of parts overflow"
                          ELSE "Invalid xy, expected x, y or xy"
        /\ last.res = LoadPartOn(NoFiles)

\* a call for the part after the last one, and it failed
C11_Witness ==
    /\ last.op = "load_part"
    /\ last.args.part = obj._num_parts + 1
    /\ last.res = Raise("Number of parts overflow")

-----------------------------------------------------------------------------
(* Claims about sessions *)

\* the session file load_session read
LoadedFile == SessionPath(SessionName(last.args.filename))

\* load_session of a session file this loader wrote with save_session or
\* update_session
LoadedSaved == last.op = "load_session" /\ LoadedFile \in DOMAIN snap

\* the record of the session file
Recorded == disk[LoadedFile].data[1]

\* the shard files that do not hold what they held when the session file was
\* written
Changed == {f \in DOMAIN Shards(disk) : disk[f] # snap[LoadedFile][f]}

\* the family of a shard file and the hash recorded for a family
Family(f) == IF f.kind = "images" THEN "rect" ELSE "fphoto"

RecordedHash(fam) ==
    IF fam = "rect" THEN Recorded.hash_rect_images ELSE Recorded.hash_floor_images

\* C9: load_session of a session file that save_session wrote for this loader
\* succeeds when the shard files hold what they held at the save.
C9_RoundTrip == LoadedSaved /\ Changed = {} => last.res = Ok(None)

\* a saved session loaded as "s.json" with the files unchanged: the record
\* holds the keys of the PartRange as strings and its ranges as lists
C9_Witness ==
    /\ LoadedSaved /\ Changed = {}
    /\ last.args.filename = <<"s", "json">>
    /\ last.res = Ok(None)
    /\ Recorded.parts_id # PyPartsId(obj._parts_id)
    /\ Get(obj._loaded_session, "file") = <<"s", "json">>

\* C10: when one shard file was changed, or two shard files of different
\* contents were exchanged, after the session file was written, the hash of
\* the family of each changed file differs from the recorded one and
\* load_session fails on the first family whose hash differs.
C10_HashDetects ==
    LoadedSaved /\ Changed # {} =>
        /\ \A f \in Changed :
               _get_file_hash(disk, obj, Family(f)) # Ok(RecordedHash(Family(f)))
        /\ ~last.res.ok
        /\ last.res.err = IF \E f \in Changed : Family(f) = "rect"
                          THEN "Rect image hash is not the same"
                          ELSE "Floor image hash is not the same"

\* the floor photo files of part 1 of the two streams were exchanged after the
\* save, and load_session failed on the floor photo hash
C10_Witness ==
    /\ LoadedSaved
    /\ Changed = {PhotoPartPath(Stem, "x", obj._floor_photo_size, 1),
                  PhotoPartPath(Stem, "y", obj._floor_photo_size, 1)}
    /\ last.res = Raise("Floor image hash is not the same")

\* the record load_session(filename) reads from the files d
RecordIn(d, filename) == d[SessionPath(SessionName(filename))].data[1]

\* a mapping of the loader or of a record as a set: key as a string, items
MappingOf(pd) == {<<str(pd[i].k), pd[i].v.items>> : i \in 1..Len(pd)}

\* the record data differs from the loader o and the files d in something the
\* session must agree on
Mismatch(d, o, data) ==
    \/ data.version # _SESSION_EXPORT_VERSION
    \/ data.class # "DataFloorPhotoXY"
    \/ _get_file_hash(d, o, "rect") # Ok(data.hash_rect_images)
    \/ _get_file_hash(d, o, "fphoto") # Ok(data.hash_floor_images)
    \/ MappingOf(data.parts_id) # MappingOf(PyPartsId(o._parts_id))
    \/ MappingOf(data.parts_project_id) # MappingOf(PyProjectId(o._parts_project_id))
    \/ data.rect_image_size # o._rect_image_size
    \/ data.floor_photo_size # o._floor_photo_size

\* a step of load_session on a session file that is there
LoadSessionStep ==
    /\ last'.op = "load_session"
    /\ isfile(disk, SessionPath(SessionName(last'.args.filename)))

\* C12: load_session fails and leaves the attached session as it was when the
\* record differs in its version, its class, a family hash, the PartRange, the
\* ProjectMembership, the rect image size or the floor photo size.
C12_LoadRefuses ==
    [][LoadSessionStep /\ Mismatch(disk, obj, RecordIn(disk, last'.args.filename))
           => ~last'.res.ok /\ obj' = obj]_vars

\* the session "s.json" is attached, and load_session of "t.json", whose
\* version is "1.1.0", has failed
C12_Witness ==
    /\ last.op = "load_session" /\ last.args.filename = <<"t">>
    /\ Recorded.version = "1.1.0"
    /\ last.res = Raise("Outdated session export version")
    /\ Len(obj._loaded_session) = 2
    /\ Get(obj._loaded_session, "file") = <<"s", "json">>

\* no session is attached to the loader
Unattached == obj # NoObj /\ obj._loaded_session = <<>>

\* a session is attached to the loader: its file and its description
Attached == obj # NoObj /\ Len(obj._loaded_session) = 2

\* a step in which save_session or load_session succeeds
SessionSucceeds == last'.op \in {"save_session", "load_session"} /\ last'.res.ok

\* a step of update_session that saves the record of the loader again, with the
\* file and the description of the attached session
Resaves ==
    LET file == Get(obj._loaded_session, "file")
        description == Get(obj._loaded_session, "description")
    IN  /\ \E today \in Dates :
               Outcome(last'.res, disk', obj') = save_session(disk, obj, file, description, today)
        /\ last'.res.ok =>
               /\ disk'[SessionPath(file)].data[1].description = description
               /\ disk'[SessionPath(file)].data[1].filename = obj._filename
               /\ \A f \in DOMAIN disk : f # SessionPath(file) => disk'[f] = disk[f]
               /\ obj'._loaded_session = obj._loaded_session

\* C13: a loader is constructed with no session attached, a session becomes
\* attached only by a save_session or load_session that succeeds and stays
\* attached from then on; update_session without an attached session fails
\* with 'Session not loaded' and writes nothing, and with an attached session it
\* saves the record again to the attached file with the attached description.
C13_UpdateSession ==
    [][/\ (last'.op = "__init__" /\ obj' # NoObj => Unattached')
       /\ (obj # NoObj /\ SessionSucceeds => Attached')
       /\ (Unattached /\ ~SessionSucceeds => Unattached')
       /\ (Attached => Attached')
       /\ (Unattached /\ last'.op = "update_session" =>
               /\ last'.res = Raise("Session not loaded")
               /\ disk' = disk /\ obj' = obj)
       /\ (Attached /\ last'.op = "update_session" =>
               /\ last'.res # Raise("Session not loaded")
               /\ Resaves)]_vars

\* update_session has written the record again to "t.json", the session that
\* load_session attached, with the description it had and the date of the call
C13_Witness ==
    /\ last.op = "update_session" /\ last.res.ok
    /\ obj._loaded_session = <<Entry("file", <<"t", "json">>), Entry("description", "earlier")>>
    /\ disk[SessionPath(<<"t", "json">>)].data[1].description = "earlier"
    /\ disk[SessionPath(<<"t", "json">>)].data[1].date_save \in Dates
    /\ SessionPath(<<"s", "json">>) \notin DOMAIN disk

\* update_session has failed on a loader that no session was attached to
C13_NotLoaded ==
    /\ last.op = "update_session" /\ last.res = Raise("Session not loaded")
    /\ Unattached /\ disk = disk0

\* load_floor_photo_data_from_session has been called on a session file that
\* save_session of the loader wrote, and the shard files are as they were then
RestoredSaved ==
    /\ last.op = "load_floor_photo_data_from_session"
    /\ obj # NoObj
    /\ LET file == SessionPath(IF HasDotJson(last.args.filename) THEN last.args.filename
                               ELSE Append(last.args.filename, "json"))
       IN  file \in DOMAIN snap /\ snap[file] = Shards(disk)

\* the loaders o and l have the same shard file paths, sizes, channel counts,
\* part count, PartRange and ProjectMembership
SameStructure(o, l) ==
    /\ o._file_rect_images_x = l._file_rect_images_x
    /\ o._file_rect_images_y = l._file_rect_images_y
    /\ o._file_floor_photo_images_x = l._file_floor_photo_images_x
    /\ o._file_floor_photo_images_y = l._file_floor_photo_images_y
    /\ o._rect_image_size = l._rect_image_size
    /\ o._floor_photo_size = l._floor_photo_size
    /\ o._rect_image_ch = l._rect_image_ch
    /\ o._floor_photo_ch = l._floor_photo_ch
    /\ o._num_parts = l._num_parts
    /\ o._parts_id = l._parts_id
    /\ o._parts_project_id = l._parts_project_id

\* the call returned a loader like the one that saved the session, with the
\* session attached
RestoredLikeSaver ==
    /\ last.res.ok
    /\ SameStructure(last.res.v, obj)
    /\ Len(last.res.v._loaded_session) = 2
    /\ Get(last.res.v._loaded_session, "file") = Get(obj._loaded_session, "file")
    /\ \A today \in Dates :
           update_session(disk, last.res.v, today).res # Raise("Session not loaded")

\* C14: load_floor_photo_data_from_session on a session file that save_session
\* of a loader L wrote, with the dataset files unchanged, succeeds and returns a
\* loader with the shard file paths, sizes, channel counts, part count,
\* PartRange and ProjectMembership of L and with the session attached, whatever
\* the stem L was constructed with.
C14_Restore == RestoredSaved => RestoredLikeSaver

\* the same for the loaders whose stem has no '.' in its last component
C14_PlainStem == RestoredSaved /\ SplitExt0(obj._file_rect_images_x.stem) = obj._file_rect_images_x.stem
                     => RestoredLikeSaver

\* a loader of the stem "ds" was made again from the session it saved
C14_PlainStemReached ==
    /\ RestoredSaved /\ obj._file_rect_images_x.stem = <<"ds">> /\ RestoredLikeSaver

\* the structural metadata of a loader: everything but the attached session
Structure(o) == [o EXCEPT !._loaded_session = <<>>]

\* the loader the constructor makes from the files as they were, with the
\* sizes and channel counts of the loader
AsConstructed ==
    __init__(disk0, Stem, obj._rect_image_size, obj._floor_photo_size,
             obj._rect_image_ch, obj._floor_photo_ch)

\* C15: once constructed, no call of load_part, save_session, load_session,
\* update_session, get_image_shape or get_total_parts, whether it succeeds or
\* fails, changes the part count, the PartRange, the ProjectMembership, the
\* shard file paths, the manifest lines, the sizes, the channel counts or the
\* filename of the loader.
C15_Frame == [][obj # NoObj => Structure(obj') = Structure(obj)]_vars

\* the paths, the manifest lines, the part count and the mappings of a loader
\* are at any time those the constructor makes from the files as they were
C15_AsConstructed ==
    obj # NoObj => AsConstructed.ok /\ Structure(obj) = AsConstructed.v

\* a session was attached by save_session, get_image_shape and get_total_parts
\* aside, and a load_part then failed: the loader is as constructed
C15_Witness ==
    /\ obj # NoObj
    /\ Len(obj._loaded_session) = 2
    /\ last.op = "load_part" /\ ~last.res.ok
    /\ obj._num_parts = 2
    /\ Structure(obj) = AsConstructed.v

\* the rect image file and the floor photo file of the part of the last call
RectFileOf(s) == IF s = "x" THEN obj._file_rect_images_x ELSE obj._file_rect_images_y

PartFileOf(s) ==
    IF s = "x" THEN At(obj._file_floor_photo_images_x, last.args.part - 1)
    ELSE At(obj._file_floor_photo_images_y, last.args.part - 1)

\* the rect image of the i-th id of the part as the files d hold it
StoredRect(d, s, i) == At(d[RectFileOf(s)].data, IdRange(obj, last.args.part)[i])

\* the bundle of stream s is made of the images the files d hold: image by
\* image when nothing is removed or reordered, and each pair of a rect image
\* and a floor photo otherwise
MadeFrom(d, s) ==
    LET b == Stream(last.res, s)
        n == Len(IdRange(obj, last.args.part))
        fp == d[PartFileOf(s)].data
    IN  /\ Len(fp) = n
        /\ \A i \in 1..n : RectImage(obj, StoredRect(d, s, i)).ok
        /\ \A k \in 1..b.len : \E i \in 1..n :
               /\ b.rect[k] = RectImage(obj, StoredRect(d, s, i)).v
               /\ b.fphoto[k] = fp[i]
               /\ b.id.image[k] = IdRange(obj, last.args.part)[i]
        /\ ~last.args.remove_null /\ ~last.args.shuffle =>
               /\ b.rect = [i \in 1..n |-> RectImage(obj, StoredRect(d, s, i)).v]
               /\ b.fphoto = fp

\* the files d hold an image that load_part of the part refuses
Defective(d, s) ==
    \/ Len(d[PartFileOf(s)].data) # Len(IdRange(obj, last.args.part))
    \/ \E i \in 1..Len(IdRange(obj, last.args.part)) : ~RectImage(obj, StoredRect(d, s, i)).ok
    \/ \E i \in 1..Len(d[PartFileOf(s)].data) : FloorPhotoCheck(obj, d[PartFileOf(s)].data[i]) # ""

\* the floor photo file of the part was replaced and the floor photos of
\* the bundle, none removed, are those of the file as it was before
Stale(s) ==
    /\ disk[PartFileOf(s)] # disk0[PartFileOf(s)]
    /\ ~last.args.remove_null
    /\ IsPermutationOf(Stream(last.res, s).fphoto, disk0[PartFileOf(s)].data)

\* C16: load_part reads the rect image file and the floor photo file of the
\* part at every call: a bundle is made of the images the files hold at the
\* call, also after a file was replaced, and never of the floor photos of a
\* file as it was before; a call that fails does so on what the files hold.
C16_NoCache ==
    /\ Loaded => \A s \in {"x", "y"} : Requested(s) => MadeFrom(disk, s) /\ ~Stale(s)
    /\ last.op = "load_part" /\ ~last.res.ok /\ ~PartOutOfRange /\ ~SelectorInvalid
           => Defective(disk, last.args.xy)

\* the floor photo file of part 1 of stream x was replaced, and load_part
\* returned the floor photos it holds now
C16_Witness ==
    /\ Loaded /\ last.args.part = 1 /\ last.args.xy = "x"
    /\ ~last.args.remove_null /\ ~last.args.shuffle
    /\ disk[PartFileOf("x")] # disk0[PartFileOf("x")]
    /\ last.res.x.fphoto = disk[PartFileOf("x")].data
    /\ last.res.x.fphoto # disk0[PartFileOf("x")].data

\* the rect image file of stream y was replaced, and load_part of part 1 failed
\* on the image it holds now
C16_FailsOnNew ==
    /\ last.op = "load_part" /\ ~last.res.ok /\ last.args.part = 1 /\ last.args.xy = "y"
    /\ disk[RectFileOf("y")] # disk0[RectFileOf("y")]
    /\ Defective(disk, "y") /\ ~Defective(disk0, "y")

\* C17: every rect image and every floor photo of a returned bundle has the
\* shape get_image_shape() gives, (floor_photo_size, floor_photo_size,
\* floor_photo_channels), whatever the sizes and channel counts of the loader
\* and whether the stored arrays have a channel axis or not.
C17_ImageShape ==
    Loaded => \A s \in {"x", "y"} : Requested(s) =>
        \A k \in 1..Stream(last.res, s).len :
            /\ Stream(last.res, s).rect[k].shape = get_image_shape(obj)
            /\ Stream(last.res, s).fphoto[k].shape = get_image_shape(obj)

\* the same for the loaders whose rect images have one channel and whose
\* floor photos have more than one
C17_StackedOnly ==
    Loaded /\ obj._rect_image_ch = 1 /\ obj._floor_photo_ch > 1 => C17_ImageShape

\* a bundle of images of three channels was returned
C17_StackedReached ==
    /\ Loaded /\ obj._rect_image_ch = 1 /\ obj._floor_photo_ch = 3 /\ Requested("x")
    /\ last.res.x.len > 0
    /\ last.res.x.rect[1].shape = <<1, 1, 3>>

\* the rect image is not square, of another size than the loader's or of
\* another channel count
OffendingRect(img) ==
    \/ img.shape[1] # img.shape[2]
    \/ img.shape[1] # obj._rect_image_size
    \/ Channels(img) # obj._rect_image_ch
    \/ Len(img.shape) = 2 /\ obj._rect_image_ch # 1

\* the floor photo is not square, of another size than the loader's or of
\* another channel count
OffendingPhoto(img) ==
    \/ img.shape[1] # img.shape[2]
    \/ img.shape[1] # obj._floor_photo_size
    \/ Channels(img) # obj._floor_photo_ch
    \/ Len(img.shape) = 2 /\ obj._floor_photo_ch # 1

\* the files hold, for the part of the last call and the stream s, a rect image
\* or a floor photo that offends, or not as many floor photos as rect images
Offending(s) ==
    LET n == Len(IdRange(obj, last.args.part))
        fp == disk[PartFileOf(s)].data
    IN  \/ \E i \in 1..n : OffendingRect(StoredRect(disk, s, i))
        \/ Len(fp) # n
        \/ \E i \in 1..Len(fp) : OffendingPhoto(fp[i])

\* C18: load_part raises and returns no bundle when, for a requested stream, a
\* rect image of the id range of the part is not square, of the wrong size or
\* of the wrong channel count, the floor photo file of the part has not as
\* many photos as the range has ids, or a floor photo is not square, of the
\* wrong size or of the wrong channel count; the images at the records that
\* remove_null removes are no exception.
C18_AllOrNothing ==
    last.op = "load_part" /\ ~PartOutOfRange /\ ~SelectorInvalid
        /\ (\E s \in {"x", "y"} : Requested(s) /\ Offending(s))
        => ~last.res.ok

\* load_part with remove_null has raised on the floor photos of part 1 of
\* stream y, where the photo of the [NULL] record has a channel too many and
\* every other image of the dataset is right
C18_Witness ==
    /\ last.op = "load_part" /\ last.args = [part |-> 1, xy |-> "xy", remove_null |-> TRUE, shuffle |-> TRUE]
    /\ ~last.res.ok
    /\ ~Offending("x")
    /\ \A i \in 1..2 : ~OffendingRect(StoredRect(disk, "y", i))
    /\ Len(disk[PartFileOf("y")].data) = 2
    /\ ~OffendingPhoto(disk[PartFileOf("y")].data[1])
    /\ disk[PartFileOf("y")].data[2].shape = <<obj._floor_photo_size, obj._floor_photo_size, obj._floor_photo_ch + 1>>
    /\ obj._photo_files_y[2].k[1].null

\* load_part returns a bundle when nothing offends in the streams requested
C18_BundleOtherwise ==
    last.op = "load_part" /\ ~PartOutOfRange /\ ~SelectorInvalid
        /\ (\A s \in {"x", "y"} : Requested(s) => ~Offending(s))
        => last.res.ok

\* the stored rect image is not in the encoding the loader takes: its least
\* pixel is not 0 or one of its pixels is greater than 1
BadEncoding(img) == Min(Range(img.data)) # 0 \/ Max(Range(img.data)) > 1

\* a rect image stored for the part of the last call, in a requested stream,
\* is not in the encoding
StoredBadEncoding ==
    \E s \in {"x", "y"} : Requested(s) /\
        \E i \in 1..Len(IdRange(obj, last.args.part)) : BadEncoding(StoredRect(disk, s, i))

\* every pixel of every rect image of the bundle is 0 or 255
ReturnedPixels ==
    \A s \in {"x", "y"} : Requested(s) =>
        \A k \in 1..Stream(last.res, s).len :
            Range(Stream(last.res, s).rect[k].data) \subseteq {0, 255}

\* C19: load_part fails when a rect image stored for the part has a least
\* pixel that is not 0 or a pixel greater than 1, such as 2 or 256, and every
\* rect image pixel of a bundle it returns is 0 or 255.
C19_PixelContract ==
    /\ last.op = "load_part" /\ ~PartOutOfRange /\ ~SelectorInvalid /\ StoredBadEncoding
           => ~last.res.ok
    /\ Loaded => ReturnedPixels

\* the same for the rect images stored as uint8
C19_Uint8 ==
    disk[RectImagesPath(Stem, "x", 2)].data[1].dtype = _DATA_DTYPE => C19_PixelContract

\* every rect image pixel of a returned bundle is 0 or 255
C19_Returned == Loaded => ReturnedPixels

\* load_part has failed on a stored pixel of 2 in a uint8 image
C19_Uint8Reached ==
    /\ last.op = "load_part" /\ last.args.xy = "x"
    /\ disk[RectImagesPath(Stem, "x", 2)].data[1].dtype = _DATA_DTYPE
    /\ disk[RectImagesPath(Stem, "x", 2)].data[1].data = <<0, 2, 0, 1>>
    /\ last.res = Raise("Invalid rect image max value, it must be 1")

\* the record of the manifest of stream s with the global id
RecordWithId(s, id) ==
    CHOOSE line \in Range(ManifestOfStream(s)) : _get_id(line) = id

\* C20: the project id of every row of the ID table of a bundle is the project
\* id the parser extracted from the record of that image, the field shift being
\* applied by both under the same condition, and so it is a member of the
\* ProjectMembership of the part.
C20_SameProjectId ==
    Loaded => \A s \in {"x", "y"} : Requested(s) =>
        \A k \in 1..Stream(last.res, s).len :
            LET b == Stream(last.res, s)
            IN  /\ Ok(b.id.project[k]) = _get_project_id(RecordWithId(s, b.id.image[k]))
                /\ b.id.project[k] \in Range(Get(obj._parts_project_id, last.args.part))

\* the same for the manifests whose records have the marker first or nowhere
C20_MarkerFirst ==
    (obj # NoObj /\ \A s \in {"x", "y"} : \A line \in Range(ManifestOfStream(s)) :
                        HasNull(line) => line.k[1].null)
        => C20_SameProjectId

\* a bundle with the row of a [NULL] record, whose project id is the one the
\* parser extracted
C20_MarkerFirstReached ==
    /\ Loaded /\ Requested("x") /\ last.res.x.len = 2
    /\ \A line \in Range(obj._photo_files_x) : HasNull(line) => line.k[1].null
    /\ last.res.x.id.rect[1] = 0 - 1
    /\ Ok(last.res.x.id.project[1]) = _get_project_id(RecordWithId("x", last.res.x.id.image[1]))

-----------------------------------------------------------------------------
(* The comparison on its own: pairs of PartRange / ProjectMembership mappings *)

MaxEqParts == 2

EqRanges == {<<a, b>> : a \in 0..2, b \in 1..2}

EqProjects == {<<>>, <<1>>, <<2>>, <<1, 2>>, <<2, 1>>}

\* the mappings with keys 1..n, n <= MaxEqParts, and values in S
DictsOver(S) ==
    UNION {{[p \in 1..n |-> Entry(p, f[p])] : f \in [1..n -> S]} : n \in 0..MaxEqParts}

EqPartRanges == {PyPartsId(d) : d \in DictsOver(EqRanges)}

EqMemberships == {PyProjectId(d) : d \in DictsOver(EqProjects)}

\* mappings with a scalar entry, and with the keys in another order
EqOthers ==
    {<<Entry(PyInt(1), PyInt(1))>>,
     <<Entry(PyInt(1), PyStr("1"))>>,
     <<Entry(PyInt(2), PyTuple(<<0, 1>>)), Entry(PyInt(1), PyTuple(<<0, 1>>))>>}

EqDicts == EqPartRanges \cup EqMemberships \cup EqOthers

InitEq ==
    /\ disk = <<>>
    /\ obj = NoObj
    /\ last \in {Event("args", [x |-> x, y |-> y], None) : x \in EqDicts, y \in EqDicts}
    /\ prev = None
    /\ disk0 = disk
    /\ snap = <<>>
    /\ model = NoModel

CompareDicts ==
    /\ last.op = "args"
    /\ last' = Event("_is_dict_equal", last.args, _is_dict_equal(last.args.x, last.args.y))
    /\ UNCHANGED <<disk, obj, prev, disk0, snap, model>>

NextEq == CompareDicts

SpecEq == InitEq /\ [][NextEq]_vars

Compared == last.op = "_is_dict_equal"

BothIn(S) == last.args.x \in S /\ last.args.y \in S

\* a part of both mappings whose first or last id differs
BoundaryDiffers(x, y) ==
    \E i \in 1..Len(x), j \in 1..Len(y) : x[i].k = y[j].k /\ x[i].v # y[j].v

\* C3: _is_dict_equal returns True for identical PartRange or ProjectMembership
\* mappings, and False for two PartRange mappings that differ in the first or
\* last id of some part or in their number of parts.
C3_DictEqual ==
    Compared =>
        /\ (BothIn(EqPartRanges) \/ BothIn(EqMemberships)) /\ last.args.x = last.args.y
               => last.res = Ok(TRUE)
        /\ BothIn(EqPartRanges)
             /\ (BoundaryDiffers(last.args.x, last.args.y)
                    \/ Len(last.args.x) # Len(last.args.y))
               => last.res = Ok(FALSE)

\* two PartRange mappings of two parts that differ only in the last id of part 2
C3_Witness ==
    /\ Compared
    /\ BothIn(EqPartRanges)
    /\ Len(last.args.x) = 2 /\ Len(last.args.y) = 2
    /\ last.args.x[1] = last.args.y[1]
    /\ last.args.x[2].v.items[1] = last.args.y[2].v.items[1]
    /\ last.args.x[2].v.items[2] # last.args.y[2].v.items[2]
    /\ last.res = Ok(FALSE)

\* an entry of x is a list or a tuple and the entry of y at the same position,
\* under the same key, is a scalar
ListAgainstScalar(x, y) ==
    /\ Len(x) = Len(y)
    /\ \E i \in 1..Len(x) :
          /\ \A j \in 1..i : str(x[j].k) = str(y[j].k)
          /\ IsListOrTuple(x[i].v) /\ ~IsListOrTuple(y[i].v)

\* C21: _is_dict_equal returns a boolean and never raises, returns False when
\* an entry is a list in x and a scalar in y, and gives the same result with
\* its arguments swapped.
C21_Total ==
    Compared =>
        /\ last.res.ok /\ last.res.v \in BOOLEAN
        /\ ListAgainstScalar(last.args.x, last.args.y) => last.res = Ok(FALSE)
        /\ _is_dict_equal(last.args.y, last.args.x) = last.res

\* the same for two mappings whose entries are all lists or tuples
C21_ListsOnly ==
    Compared /\ (\A i \in 1..Len(last.args.x) : IsListOrTuple(last.args.x[i].v))
             /\ (\A i \in 1..Len(last.args.y) : IsListOrTuple(last.args.y[i].v))
        => C21_Total

\* a tuple in x against an int in y under the key 1: the call raised, and with
\* the arguments swapped it returns False
C21_Raised ==
    /\ Compared
    /\ last.args.x = <<Entry(PyInt(1), PyTuple(<<0, 1>>))>>
    /\ last.args.y = <<Entry(PyInt(1), PyInt(1))>>
    /\ last.res = Raise("AssertionError")
    /\ _is_dict_equal(last.args.y, last.args.x) = Ok(FALSE)

-----------------------------------------------------------------------------
(* The parser on manifests whose part labels come in any order *)

MaxMemberLines == 5

\* the record at position j (from 1): the id is the position from 0, every
\* second record has the [NULL] marker
MemberLine(j, project, part) ==
    IF j % 2 = 0 THEN NullLine(j - 1, project, 0, part) ELSE RectLine(j - 1, j, project, 0, part)

\* the manifests of up to MaxMemberLines records of the parts 1, 2 and the
\* projects 1, 2
MemberManifests ==
    UNION {{[j \in 1..n |-> MemberLine(j, f[j][1], f[j][2])] : f \in [1..n -> {1, 2} \X {1, 2}]} :
              n \in 1..MaxMemberLines}

InitMembership ==
    /\ disk \in {(ParseFile :> File(<<HeaderLine>> \o m)) : m \in MemberManifests}
    /\ obj = NoObj
    /\ last = Event("init", None, None)
    /\ prev = None
    /\ disk0 = disk
    /\ snap = <<>>
    /\ model = NoModel

NextMembership == ParseManifest

SpecMembership == InitMembership /\ [][NextMembership]_vars

\* the project ids of the records labelled part p
ProjectsOfPart(photo_files, p) ==
    {_get_project_id(photo_files[j]).v : j \in {i \in 1..Len(photo_files) : _get_part(photo_files[i]) = p}}

NoDuplicates(q) == \A i, j \in 1..Len(q) : q[i] = q[j] => i = j

\* the part labels of the records never go back to an earlier part
LabelsContiguous(photo_files) ==
    \A i, j \in 1..Len(photo_files) :
        i < j /\ _get_part(photo_files[i]) = _get_part(photo_files[j])
            => \A k \in i..j : _get_part(photo_files[k]) = _get_part(photo_files[i])

\* C22: for every accepted manifest and every part p in 1..N the returned
\* ProjectMembership(p) holds, without duplicates, exactly the project ids of
\* the records labelled part p.
C22_Membership ==
    Accepted =>
        \A p \in 1..TotalParts(last.res.photo_files) :
            /\ HasKey(last.res.projectid, p)
            /\ NoDuplicates(Get(last.res.projectid, p))
            /\ Range(Get(last.res.projectid, p)) = ProjectsOfPart(last.res.photo_files, p)

\* the same for the manifests whose records of a part follow one another
C22_ContiguousLabels ==
    Accepted /\ LabelsContiguous(last.res.photo_files) => C22_Membership

\* an accepted manifest of contiguous parts, part 1 with the projects 1 and 2
C22_ContiguousReached ==
    /\ Accepted /\ LabelsContiguous(last.res.photo_files)
    /\ Get(last.res.projectid, 1) = <<2, 1>>
    /\ Len(last.res.photo_files) = 5

-----------------------------------------------------------------------------
(* The ID table of a bundle *)

\* C23: without remove_null and shuffle the image ids of the ID table of part
\* p are first_id(p), first_id(p) + 1, ..., last_id(p) in this order, and with
\* any flags every image id of the table is within first_id(p)..last_id(p).
C23_ImageIds ==
    Loaded => \A s \in {"x", "y"} : Requested(s) =>
        LET b == Stream(last.res, s)
        IN  /\ ~last.args.remove_null /\ ~last.args.shuffle
                   => b.id.image = IdRange(obj, last.args.part)
            /\ \A k \in 1..b.len :
                   /\ First(obj._parts_id, last.args.part) <= b.id.image[k]
                   /\ b.id.image[k] <= LastId(obj._parts_id, last.args.part)

\* the same for the manifests whose global ids begin at 0
C23_IdsFromZero ==
    obj # NoObj /\ _get_id(obj._photo_files_x[1]) = 0 /\ _get_id(obj._photo_files_y[1]) = 0
        => C23_ImageIds

\* a bundle of part 2 of a manifest whose ids begin at 0
C23_IdsFromZeroReached ==
    /\ Loaded /\ last.args.part = 2 /\ Requested("x")
    /\ ~last.args.remove_null /\ ~last.args.shuffle
    /\ _get_id(obj._photo_files_x[1]) = 0
    /\ last.res.x.id.image = <<2, 3>>

\* the positions of the records labelled part p
RecordsOfPart(photo_files, p) == {i \in 1..Len(photo_files) : _get_part(photo_files[i]) = p}

\* the ids first(p)..last(p) of a returned part
IdsOfRange(partsid, p) == First(partsid, p)..LastId(partsid, p)

\* C24: for every accepted manifest the records labelled part p are exactly the
\* records whose id is in first(p)..last(p), last(p) - first(p) + 1 of them;
\* every record is in the range of its own part and of no other, and every
\* id of a range is the id of a record.
C24_RangesCoverRecords ==
    Accepted =>
        LET pf == last.res.photo_files
            partsid == last.res.partsid
        IN  /\ \A p \in 1..TotalParts(pf) :
                  /\ HasKey(partsid, p)
                  /\ {_get_id(pf[i]) : i \in RecordsOfPart(pf, p)} = IdsOfRange(partsid, p)
                  /\ Cardinality(RecordsOfPart(pf, p)) = LastId(partsid, p) - First(partsid, p) + 1
            /\ \A i \in 1..Len(pf) :
                  {q \in Range(Keys(partsid)) : _get_id(pf[i]) \in IdsOfRange(partsid, q)}
                      = {_get_part(pf[i])}

\* the same for the manifests whose records of a part follow one another
C24_ContiguousLabels ==
    Accepted /\ LabelsContiguous(last.res.photo_files) => C24_RangesCoverRecords

\* an accepted manifest of three records of part 1 and two of part 2
C24_ContiguousReached ==
    /\ Accepted /\ LabelsContiguous(last.res.photo_files)
    /\ last.res.partsid = <<Entry(1, <<0, 2>>), Entry(2, <<3, 4>>)>>


\* the x and y entries of a bundle have the same length and name the same
\* global image at every position
Lockstep(res) ==
    /\ res.x.len = res.y.len
    /\ res.x.id.image = res.y.id.image

\* C25: for load_part(part, 'xy', remove_null, shuffle) with any values of
\* remove_null and shuffle, the x and y entries of the returned bundle are in
\* lockstep: x_len = y_len and position i refers to the same global image in
\* both streams.
C25_Lockstep == Loaded /\ last.args.xy = "xy" => Lockstep(last.res)

\* without shuffle and without remove_null the two streams of a returned
\* bundle are in lockstep
C25_PlainLockstep ==
    Loaded /\ last.args.xy = "xy" /\ ~last.args.shuffle /\ ~last.args.remove_null =>
        Lockstep(last.res)

\* a plain load of both streams returned two images or more
C25_PlainReached ==
    /\ Loaded /\ last.args.xy = "xy" /\ ~last.args.shuffle /\ ~last.args.remove_null
    /\ last.res.x.len >= 2


\* channel counts a loader is constructed with
ChannelCounts == {1, 3}

\* a dataset and the session file "t.json": the record that a loader of the
\* dataset constructed with some channel counts has saved, as saved or with
\* one field changed by hand
InitConfig ==
    /\ \E c \in DataConfigs, shape \in PartShapes(MaxParts),
          rc \in ChannelCounts, fc \in ChannelCounts :
         \E d \in {Dataset(c, Manifest(0, shape, {}, 2), Manifest(0, shape, {}, 2))} :
            \E o \in {__init__(d, Stem, c.rs, c.fs, rc, fc)} :
               /\ o.ok
               /\ \E r \in {RecordOf(d, o.v)} :
                     \E t \in Tampered(r) \cup {r, [r EXCEPT !.num_parts = @ + 1]} :
                        disk = (SessionPath(<<"t", "json">>) :> File(<<t>>)) @@ d
    /\ disk0 = disk
    /\ obj = NoObj
    /\ last = Event("init", None, None)
    /\ prev = None
    /\ snap = <<>>
    /\ model = NoModel

NextConfig ==
    \/ \E c \in DataConfigs, rc \in ChannelCounts, fc \in ChannelCounts :
           New(Stem, <<c.rs, c.fs, rc, fc>>)
    \/ \E description \in Descriptions, today \in Dates : SaveSession(<<"s">>, description, today)
    \/ \E n \in {<<"s">>, <<"t">>} : LoadSession(n)
    \/ \E today \in Dates : UpdateSession(today)

SpecConfig == InitConfig /\ [][NextConfig]_vars

\* load_session has returned
SessionLoaded == last.op = "load_session" /\ last.res.ok

LoadSessionFails == last'.op = "load_session" /\ ~last'.res.ok

\* C27: when load_session fails, the attached session of the loader is what
\* it was before the call: with none attached update_session fails still
\* with 'Session not loaded', and a loader attached to a session keeps the
\* file and the description of it; no file changes.
C27_FailedLoadKeepsSession ==
    [][LoadSessionFails =>
           /\ obj'._loaded_session = obj._loaded_session
           /\ disk' = disk
           /\ (Unattached =>
                   \A today \in Dates :
                       update_session(disk', obj', today).res = Raise("Session not loaded"))]_vars

\* the session "s.json" is attached with the description "run", and
\* load_session of "t.json" has failed on the hash of the floor photos
C27_Witness ==
    /\ last.op = "load_session" /\ last.args.filename = <<"t">>
    /\ last.res = Raise("Floor image hash is not the same")
    /\ obj._loaded_session = <<Entry("file", <<"s", "json">>), Entry("description", "run")>>

\* no session is attached, and load_session has failed on the class of the
\* record
C27_Unattached ==
    /\ last.op = "load_session"
    /\ last.res = Raise("Data class is not valid")
    /\ obj._loaded_session = <<>>


\* a shard file of the dataset is removed; one file in a behaviour
RemoveShard(f) ==
    /\ obj # NoObj
    /\ Shards(disk) = Shards(disk0)
    /\ f \in DOMAIN Shards(disk)
    /\ disk' = [g \in DOMAIN disk \ {f} |-> disk[g]]
    /\ last' = Event("env", [file |-> f], None)
    /\ UNCHANGED <<obj, prev, disk0, snap, model>>

NextPartial ==
    \/ \E a \in CtorArgs : New(Stem, a)
    \/ \E description \in Descriptions, today \in Dates : SaveSession(<<"s">>, description, today)
    \/ LoadSession(<<"s">>)
    \/ \E today \in Dates : UpdateSession(today)
    \/ \E f \in DOMAIN disk : RemoveShard(f)

SpecPartial == InitSession /\ [][NextPartial]_vars

\* a step of save_session or update_session that raised
SaveFails == last'.op \in {"save_session", "update_session"} /\ ~last'.res.ok

\* C28: when save_session or update_session fails, a session record written
\* before at the target path is left as it was, and the attached session of
\* the loader is unchanged.
C28_FailedSaveKeepsRecord ==
    [][SaveFails =>
           /\ \A f \in DOMAIN snap : f \in DOMAIN disk' /\ disk'[f] = disk[f]
           /\ obj'._loaded_session = obj._loaded_session]_vars

\* when save_session or update_session fails, the attached session of the
\* loader is unchanged, and the files other than the target are unchanged
C28_SessionKept ==
    [][SaveFails =>
           /\ obj'._loaded_session = obj._loaded_session
           /\ Shards(disk') = Shards(disk)]_vars

\* update_session has failed on a shard file that is not there, and the
\* session file that was written before is empty
C28_Truncated ==
    /\ last.op = "update_session" /\ ~last.res.ok
    /\ last.res.err = "FileNotFoundError"
    /\ Attached
    /\ disk[SessionPath(Get(obj._loaded_session, "file"))] = File(<<>>)


\* file names given to save_session and load_session: 's', 's.json',
\* 's.json.bak' and 's.json.bak.json'
LongNames == {<<"s">>, <<"s", "json">>, <<"s", "json", "bak">>, <<"s", "json", "bak", "json">>}

NextNames ==
    \/ \E a \in CtorArgs : New(Stem, a)
    \/ \E n \in LongNames, description \in Descriptions, today \in Dates :
         SaveSession(n, description, today)
    \/ \E n \in LongNames : LoadSession(n)
    \/ \E today \in Dates : UpdateSession(today)

SpecNames == InitSession /\ [][NextNames]_vars

\* the file of the attached session
AttachedFile(o) == SessionPath(Get(o._loaded_session, "file"))

\* a step of update_session that returned
Updated == Attached /\ last'.op = "update_session" /\ last'.res.ok

\* C29: after any successful save_session and load_session calls, with any
\* file names, a successful update_session writes its record to the file named
\* in the attached session and to no other, and leaves the attached session
\* (file and description) unchanged.
C29_UpdateSameFile ==
    [][Updated =>
           /\ obj'._loaded_session = obj._loaded_session
           /\ DOMAIN disk' = DOMAIN disk
           /\ \A f \in DOMAIN disk \ {AttachedFile(obj)} : disk'[f] = disk[f]
           /\ disk'[AttachedFile(obj)].data[1].description = Get(obj._loaded_session, "description")]_vars

\* the name of the attached session has 'json' as its last piece and nowhere
\* else
PlainName(o) ==
    LET name == Get(o._loaded_session, "file")
    IN  {i \in 1..Len(name) : name[i] = "json"} = {Len(name)}

\* a successful update_session of a session whose name ends in '.json', with
\* no other '.json' in it, writes that file and no other and leaves the
\* attached session unchanged
C29_PlainNames ==
    [][Updated /\ PlainName(obj) =>
           /\ obj'._loaded_session = obj._loaded_session
           /\ DOMAIN disk' = DOMAIN disk
           /\ \A f \in DOMAIN disk \ {AttachedFile(obj)} : disk'[f] = disk[f]]_vars


-----------------------------------------------------------------------------
(* Pix2PixFloorPhotoModel.train over the parts of a DataFloorPhotoXY *)

MaxTrainParts == 3

\* Pix2PixFloorPhotoModel(data, name, xy): the attributes that train reads
\* and writes, and the position of a train call: pc is "loop" while the call
\* is in its for loop, i is the loop variable, npt the number of processed
\* parts, loads the parts that the call has passed to load_part so far
Pix2PixFloorPhotoModel(xy) ==
    IF xy \notin {"x", "y"} THEN Raise("Invalid xy, use x or y")
    ELSE Ok([made |-> TRUE, _xy |-> xy, _is_trained |-> FALSE, _samples |-> {},
             _current_train_part |-> -1,
             pc |-> "idle", init_part |-> 0, n_parts |-> 0, i |-> 0, npt |-> 0,
             loads |-> <<>>])

\* the asserts of train on init_part and n_parts (lines 597-621)
train_asserts(o, init_part, n_parts) ==
    LET total_parts == get_total_parts(o)
    IN  IF ~(1 <= init_part /\ init_part <= total_parts)
        THEN Raise("Initial part exceeds total parts")
        ELSE IF ~((total_parts - init_part >= n_parts /\ n_parts >= 1) \/ n_parts = -1)
        THEN Raise("AssertionError")
        ELSE Ok(None)

\* the arguments of the train call that is running or was last run
TrainArgs(m) == [init_part |-> m.init_part, n_parts |-> m.n_parts]

InitTrain ==
    /\ \E c \in DataConfigs, shape \in PartShapes(MaxTrainParts) :
         disk = Dataset(c, Manifest(0, shape, {}, 2), Manifest(0, shape, {}, 2))
    /\ disk0 = disk
    /\ obj = NoObj
    /\ last = Event("init", None, None)
    /\ prev = None
    /\ snap = <<>>
    /\ model = NoModel

NewModel(xy) ==
    /\ obj # NoObj
    /\ model = NoModel
    /\ \E r \in {Pix2PixFloorPhotoModel(xy)} :
           /\ model' = IF r.ok THEN r.v ELSE NoModel
           /\ last' = Event("Pix2PixFloorPhotoModel", [xy |-> xy],
                            IF r.ok THEN Ok(None) ELSE r)
    /\ UNCHANGED <<disk, obj, prev, disk0, snap>>

\* train(..., init_part=init_part, n_parts=n_parts) up to its for loop; the
\* iterations with part < init_part do nothing (continue), the loop is entered
\* at i = init_part - 1
Train(init_part, n_parts) ==
    /\ obj # NoObj
    /\ model # NoModel
    /\ model.pc = "idle"
    /\ \E r \in {train_asserts(obj, init_part, n_parts)} :
           IF ~r.ok
           THEN /\ last' = Event("train", [init_part |-> init_part, n_parts |-> n_parts], r)
                /\ model' = [model EXCEPT !.init_part = init_part, !.n_parts = n_parts,
                                          !.loads = <<>>]
           ELSE /\ last' = Event("train_loop", [init_part |-> init_part, n_parts |-> n_parts], None)
                /\ model' = [model EXCEPT !.pc = "loop", !.init_part = init_part,
                                          !.n_parts = n_parts, !.i = init_part - 1,
                                          !.npt = 0, !.loads = <<>>]
    /\ UNCHANGED <<disk, obj, prev, disk0, snap>>

\* one iteration of the for loop of train (lines 631-715) for part = i + 1:
\* load_part, the training step, whose outcome is the value of _is_trained
\* after it, and the end of the call when the training failed, when n_parts
\* parts are processed or when the range is exhausted
TrainPart ==
    /\ model # NoModel
    /\ model.pc = "loop"
    /\ LET part == model.i + 1
           done(m, res) ==
               /\ model' = [m EXCEPT !.pc = "idle"]
               /\ last' = Event("train", TrainArgs(model), res)
       IN  \E part_data \in {load_part(disk, obj, part, model._xy, TRUE, FALSE, <<>>, <<>>)} :
             IF ~part_data.ok
             THEN done([model EXCEPT !.loads = Append(@, part)], part_data)
             ELSE IF Stream(part_data, model._xy).len = 0
             THEN done([model EXCEPT !.loads = Append(@, part)], Raise("AssertionError"))
             ELSE \E trained \in BOOLEAN :
                    LET m == [model EXCEPT !.loads = Append(@, part),
                                           !._samples = @ \cup {part},
                                           !._current_train_part = part,
                                           !._is_trained = trained]
                    IN  IF ~trained THEN done(m, Ok(None))
                        ELSE IF m.npt + 1 = m.n_parts \/ m.i + 1 = get_total_parts(obj)
                        THEN done([m EXCEPT !.npt = @ + 1], Ok(None))
                        ELSE /\ model' = [m EXCEPT !.npt = @ + 1, !.i = @ + 1]
                             /\ last' = Event("train_loop", TrainArgs(model), None)
    /\ UNCHANGED <<disk, obj, prev, disk0, snap>>

NextTrain ==
    \/ \E a \in CtorArgs : New(Stem, a)
    \/ \E xy \in {"x", "y", "xy"} : NewModel(xy)
    \/ \E init_part \in 0..(MaxTrainParts + 1), n_parts \in (-1)..(MaxTrainParts + 1) :
           Train(init_part, n_parts)
    \/ TrainPart

SpecTrain == InitTrain /\ [][NextTrain]_vars

\* the for loop of train runs to its end
SpecTrainFair == SpecTrain /\ WF_vars(TrainPart)

\* the parts from a to b in ascending order
Ascending(a, b) == [j \in 1..(b - a + 1) |-> a + j - 1]

\* a train call has ended
TrainEnded == model # NoModel /\ model.pc = "idle" /\ last.op = "train"

\* the train call was not refused by an assert on its arguments
TrainAccepted == last.res.ok \/ model.loads # <<>>

\* the parts that train is to process: n_parts of them from init_part, or all
\* of them from init_part when n_parts is -1
TrainRange ==
    Ascending(model.init_part,
              IF model.n_parts = -1 THEN get_total_parts(obj)
              ELSE model.init_part + model.n_parts - 1)

\* the parts loaded are those of the range when the last training step
\* succeeded, and a beginning of the range that ends at the part whose training
\* step failed otherwise
LoadsInOrder ==
    /\ Len(model.loads) \in 1..Len(TrainRange)
    /\ model.loads = SubSeq(TrainRange, 1, Len(model.loads))
    /\ last.res.ok /\ model._is_trained => model.loads = TrainRange
    /\ last.res.ok /\ ~model._is_trained => Last(model.loads) = model._current_train_part

\* C30: train with init_part = i and n_parts = k is accepted for every k with
\* 1 <= k <= total_parts - i + 1 and for k = -1, calls load_part once for each
\* part of i..i+k-1 (of i..total_parts for k = -1) in ascending order while
\* the training steps succeed, and loads no part after the one whose training
\* step fails.
C30_Train ==
    TrainEnded /\ 1 <= model.init_part /\ model.init_part <= get_total_parts(obj)
        /\ (model.n_parts = -1
               \/ (1 <= model.n_parts
                     /\ model.n_parts <= get_total_parts(obj) - model.init_part + 1)) =>
        /\ TrainAccepted
        /\ LoadsInOrder

\* the same for every k with 1 <= k <= total_parts - i and for k = -1
C30_OneLess ==
    TrainEnded /\ 1 <= model.init_part /\ model.init_part <= get_total_parts(obj)
        /\ (model.n_parts = -1
               \/ (1 <= model.n_parts
                     /\ model.n_parts <= get_total_parts(obj) - model.init_part)) =>
        /\ TrainAccepted
        /\ LoadsInOrder

\* train is refused exactly when init_part is out of 1..total_parts or n_parts
\* is neither -1 nor in 1..total_parts - init_part
C30_Refused ==
    TrainEnded =>
        (~TrainAccepted <=>
            \/ ~(1 <= model.init_part /\ model.init_part <= get_total_parts(obj))
            \/ ~(model.n_parts = -1
                   \/ (1 <= model.n_parts
                         /\ model.n_parts <= get_total_parts(obj) - model.init_part)))

\* train(init_part=1, n_parts=2) has loaded the parts 1 and 2 of three and
\* has ended
C30_TwoOfThree ==
    /\ TrainEnded /\ last.res.ok /\ model._is_trained
    /\ get_total_parts(obj) = 3
    /\ TrainArgs(model) = [init_part |-> 1, n_parts |-> 2]
    /\ model.loads = <<1, 2>>

\* a train call that has entered its loop ends
C30_Stops == (model # NoModel /\ model.pc = "loop") ~> TrainEnded

=============================================================================
